---------------------------- MODULE Spec2Model ----------------------------
(***************************************************************************)
(* Model of the segmentation workspace of the handwriting-to-LaTeX web     *)
(* application: the job-status capability table (lib/utils.ts), the        *)
(* annotation collection (useSegmentationData), the page geometry          *)
(* (useImageLoader.calculateSizes, page.tsx imageOffset) and the drawing   *)
(* gesture (useDrawing).                                                   *)
(*                                                                         *)
(* JavaScript numbers are modelled as exact extended rationals: a record   *)
(* [n, d] with d > 0 is the rational n/d in lowest terms, and d = 0 stands *)
(* for the three non-finite values a division by zero produces             *)
(* (n = 1: Infinity, n = -1: -Infinity, n = 0: NaN).  The layout section   *)
(* (SpecLayout) computes the same geometry in IEEE-754 binary64, rounding  *)
(* every operation to nearest, ties to even.  Submitting, enhancing, the   *)
(* image loads and the container's events have sections of their own.      *)
(***************************************************************************)
EXTENDS Integers, Sequences, FiniteSets, TLC

VARIABLES
    job,                \* jobs table: the Job of the rendered row
    buttons,            \* jobs table: the flags rendered for that row
    pageImages,         \* useSegmentationData: useState<PageImageInfo[]>
    segmentationTasks,  \* useSegmentationData: useState<SegmentationTaskItem[]>
    boundingBoxes,      \* useSegmentationData: useState<BoundingBox[]>
    completedTasks,     \* useSegmentationData: useState<Set<string>>
    loading,            \* useSegmentationData: useState loading
    error,              \* useSegmentationData: useState error
    fetching,           \* useSegmentationData: a fetchData call is awaiting its responses
    containerSize,      \* useImageLoader: useState containerSize
    imageObj,           \* useImageLoader: useState imageObj (the loaded image) or Null
    renderedImageSize,  \* useImageLoader: useState renderedImageSize
    imageScale,         \* useImageLoader: useState imageScale
    imageCache,         \* useImageLoader: module-level imageCache (urls held)
    inflight,           \* useImageLoader: urls of Image objects still loading
    isDrawing,          \* useDrawing: useState isDrawing
    newBox,             \* useDrawing: useState newBox (DrawingBox) or Null
    currentTaskIndex,   \* page.tsx: useState currentTaskIndex
    currentPageIndex,   \* page.tsx: useState currentPageIndex
    isSaving,           \* page.tsx: useState isSaving
    posts,              \* POST /segmentations requests awaiting their response
    route,              \* the router's location after the last push
    enhancingLabel,     \* page.tsx: useState enhancingLabel
    enhanceModalOpen,   \* page.tsx: useState enhanceModalOpen
    enhanceResult,      \* page.tsx: useState enhanceResult
    enhanceRequests,    \* POST /enhance requests awaiting their response
    patches,            \* PATCH use-enhanced requests awaiting their response
    loadsStarted,       \* history: per image url, the Image objects given that src
    prefetching,        \* useImageLoader: urls of preloadImage's Images still loading
    prefetched,         \* useImageLoader: prefetchedRef (page indices)
    preloading,         \* lib/utils: urls of preloadJobImages' Images still loading
    preloadCache,       \* lib/utils: module-level imageCache (urls held)
    preloadedJobs,      \* lib/utils: module-level preloadedJobs (job ids)
    preloadsPending,    \* lib/utils: preloadJobImages calls awaiting the pages response
    inputKinds,         \* history: the kinds of event of the gesture under way
    jobStatus,          \* backend: the status the pipeline holds for the job
    abandoned,          \* useSegmentationData: how many of the fetching calls were
                        \* started for a jobId the hook has left since
    texContent,         \* edit/page.tsx: useState texContent
    lastPreviewContent, \* edit/page.tsx: useState lastPreviewContent
    previewPdfUrl,      \* edit/page.tsx: useState previewPdfUrl (the object URL made
                        \* from the response of a preview request) or NoPreview
    isPreviewLoading,   \* edit/page.tsx: useState isPreviewLoading
    previewError,       \* edit/page.tsx: useState previewError
    debounceTimeout,    \* edit/page.tsx: the pending timer of debounceTimeoutRef
    previewRequests,    \* POST /preview-with-images requests awaiting their response
    previewsSent,       \* history: how many preview requests have been sent
    intervalRef,        \* useVisibilityPolling: intervalRef.current (0 for null)
    timers,             \* the ids of the setInterval timers that are active
    hidden,             \* document.hidden
    enabled,            \* useVisibilityPolling: its enabled argument
    listening,          \* a visibilitychange listener of the hook is registered
    pollMounted,        \* the component using useVisibilityPolling is mounted
    lastOp              \* history: the handler that ran last and its arguments

statusVars == <<job, buttons>>

dataVars == <<pageImages, segmentationTasks, boundingBoxes, completedTasks, loading,
              error, fetching>>

loaderVars == <<containerSize, imageObj, renderedImageSize, imageScale, imageCache,
                inflight>>

drawVars == <<isDrawing, newBox>>

pageVars == <<currentTaskIndex, currentPageIndex>>

saveVars == <<isSaving, posts, route>>

enhanceVars == <<enhancingLabel, enhanceModalOpen, enhanceResult, enhanceRequests,
                 patches>>

preloadVars == <<loadsStarted, prefetching, prefetched, preloading, preloadCache,
                 preloadedJobs, preloadsPending>>

editVars == <<texContent, lastPreviewContent, previewPdfUrl, isPreviewLoading,
              previewError, debounceTimeout, previewRequests, previewsSent>>

pollVars == <<intervalRef, timers, hidden, enabled, listening, pollMounted>>

otherPagesVars == <<editVars, pollVars>>

sessionVars == <<saveVars, enhanceVars, preloadVars, inputKinds, jobStatus, abandoned,
                 otherPagesVars>>

vars == <<statusVars, dataVars, loaderVars, drawVars, pageVars, sessionVars, lastOp>>

Null == "null"
Undefined == "undefined"

NoPreview == [content |-> Null, request |-> 0]

NoTimeout == [value |-> Null, seen |-> Null]

\* The edit page and the jobs page's polling hook before they are mounted
OtherPagesInit ==
    /\ texContent = ""
    /\ lastPreviewContent = ""
    /\ previewPdfUrl = NoPreview
    /\ isPreviewLoading = FALSE
    /\ previewError = Null
    /\ debounceTimeout = NoTimeout
    /\ previewRequests = <<>>
    /\ previewsSent = 0
    /\ intervalRef = 0
    /\ timers = {}
    /\ hidden = FALSE
    /\ enabled = TRUE
    /\ listening = FALSE
    /\ pollMounted = FALSE

-----------------------------------------------------------------------------
(* JavaScript numbers *)

Min(a, b) == IF a < b THEN a ELSE b

Max(a, b) == IF a > b THEN a ELSE b

Abs(i) == IF i < 0 THEN 0 - i ELSE i

Sign(i) == IF i > 0 THEN 1 ELSE IF i < 0 THEN 0 - 1 ELSE 0

RECURSIVE Gcd(_, _)
Gcd(a, b) == IF b = 0 THEN a ELSE Gcd(b, a % b)

\* The number n/d (d may be 0 or negative) in canonical form.
Num(n, d) ==
    IF d = 0 THEN [n |-> Sign(n), d |-> 0]
    ELSE LET g == Gcd(Abs(n), Abs(d))
             s == Sign(d)
         IN  [n |-> (s * n) \div g, d |-> (s * d) \div g]

FromInt(i) == [n |-> i, d |-> 1]

NaN == [n |-> 0, d |-> 0]

IsNaN(a) == a.d = 0 /\ a.n = 0

IsFinite(a) == a.d > 0

\* a - b
JsSub(a, b) ==
    IF IsNaN(a) \/ IsNaN(b) THEN NaN
    ELSE IF a.d = 0 /\ b.d = 0 THEN (IF a.n = b.n THEN NaN ELSE a)
    ELSE IF a.d = 0 THEN a
    ELSE IF b.d = 0 THEN [n |-> 0 - b.n, d |-> 0]
    ELSE Num(a.n * b.d - b.n * a.d, a.d * b.d)

JsNeg(a) == [n |-> 0 - a.n, d |-> a.d]

\* a + b
JsAdd(a, b) == JsSub(a, JsNeg(b))

\* a * b
JsMul(a, b) ==
    IF IsNaN(a) \/ IsNaN(b) THEN NaN
    ELSE IF a.d = 0 \/ b.d = 0 THEN [n |-> Sign(a.n) * Sign(b.n), d |-> 0]
    ELSE Num(a.n * b.n, a.d * b.d)

\* a / b
JsDiv(a, b) ==
    IF IsNaN(a) \/ IsNaN(b) THEN NaN
    ELSE IF a.d = 0 /\ b.d = 0 THEN NaN
    ELSE IF a.d = 0 THEN [n |-> a.n * (IF b.n < 0 THEN 0 - 1 ELSE 1), d |-> 0]
    ELSE IF b.d = 0 THEN FromInt(0)
    ELSE Num(a.n * b.d, a.d * b.n)

\* a < b; every comparison with NaN is false
JsLt(a, b) ==
    IF IsNaN(a) \/ IsNaN(b) THEN FALSE
    ELSE IF a.d = 0 /\ b.d = 0 THEN a.n < b.n
    ELSE a.n * b.d < b.n * a.d

JsGt(a, b) == JsLt(b, a)

\* a <= b on numbers that are not NaN
JsLe(a, b) == ~IsNaN(a) /\ ~IsNaN(b) /\ ~JsLt(b, a)

\* Math.min and Math.max return NaN when an argument is NaN
MathMin(a, b) == IF IsNaN(a) \/ IsNaN(b) THEN NaN ELSE IF JsLt(b, a) THEN b ELSE a

MathMax(a, b) == IF IsNaN(a) \/ IsNaN(b) THEN NaN ELSE IF JsLt(a, b) THEN b ELSE a

\* !x on a number: 0 and NaN are falsy
Falsy(a) == IsNaN(a) \/ (a.d > 0 /\ a.n = 0)

-----------------------------------------------------------------------------
(* JavaScript numbers with their rounding: IEEE 754 binary64, round to nearest,
   ties to even, for finite values in the normal range.  A natural number is a
   sequence of limbs below LimbBase, least significant first, with no leading
   zero limb (<<>> is 0); products of two limbs stay below 2^31. *)

LimbBits == 14

MantissaBits == 53

RECURSIVE Pow2(_)
Pow2(k) == IF k = 0 THEN 1 ELSE 2 * Pow2(k - 1)

LimbBase == Pow2(LimbBits)

Limb(a, i) == IF i >= 1 /\ i <= Len(a) THEN a[i] ELSE 0

BigTrim(a) ==
    LET nz == {i \in 1..Len(a) : a[i] # 0}
    IN  IF nz = {} THEN <<>>
        ELSE SubSeq(a, 1, CHOOSE i \in nz : \A j \in nz : j <= i)

\* Limbs that may exceed LimbBase, brought back below it by carrying.
RECURSIVE BigCarryFrom(_, _, _)
BigCarryFrom(a, i, c) ==
    IF i > Len(a)
    THEN IF c = 0 THEN <<>> ELSE <<c % LimbBase>> \o BigCarryFrom(a, i, c \div LimbBase)
    ELSE LET t == a[i] + c
         IN  <<t % LimbBase>> \o BigCarryFrom(a, i + 1, t \div LimbBase)

BigCarry(a) == BigTrim(BigCarryFrom(a, 1, 0))

BigFromInt(n) == BigCarry(<<n>>)

BigAdd(a, b) ==
    BigCarry([i \in 1..Max(Len(a), Len(b)) |-> Limb(a, i) + Limb(b, i)])

\* a - b for a >= b
RECURSIVE BigBorrowFrom(_, _, _, _)
BigBorrowFrom(a, b, i, br) ==
    IF i > Len(a) THEN <<>>
    ELSE LET t == a[i] - Limb(b, i) - br
         IN  IF t < 0
             THEN <<t + LimbBase>> \o BigBorrowFrom(a, b, i + 1, 1)
             ELSE <<t>> \o BigBorrowFrom(a, b, i + 1, 0)

BigSub(a, b) == BigTrim(BigBorrowFrom(a, b, 1, 0))

\* -1, 0 or 1 as a < b, a = b or a > b
BigCmp(a, b) ==
    IF Len(a) # Len(b) THEN (IF Len(a) < Len(b) THEN -1 ELSE 1)
    ELSE LET df == {i \in 1..Len(a) : a[i] # b[i]}
         IN  IF df = {} THEN 0
             ELSE LET top == CHOOSE i \in df : \A j \in df : j <= i
                  IN  IF a[top] < b[top] THEN -1 ELSE 1

\* a * k for 0 <= k <= LimbBase
BigMulSmall(a, k) == BigCarry([i \in 1..Len(a) |-> a[i] * k])

\* a * LimbBase^q
BigShiftLimbs(a, q) ==
    IF a = <<>> THEN <<>> ELSE [i \in 1..(Len(a) + q) |-> IF i <= q THEN 0 ELSE a[i - q]]

RECURSIVE BigMulFrom(_, _, _)
BigMulFrom(a, b, i) ==
    IF i > Len(a) THEN <<>>
    ELSE BigAdd(BigShiftLimbs(BigMulSmall(b, a[i]), i - 1), BigMulFrom(a, b, i + 1))

BigMul(a, b) == BigMulFrom(a, b, 1)

\* a * 2^k
BigShl(a, k) == BigMulSmall(BigShiftLimbs(a, k \div LimbBits), Pow2(k % LimbBits))

\* floor(a / 2^k)
BigShr(a, k) ==
    LET q == k \div LimbBits
        r == k % LimbBits
    IN  BigTrim([i \in 1..Max(Len(a) - q, 0) |->
                    (Limb(a, i + q) \div Pow2(r))
                    + (Limb(a, i + q + 1) % Pow2(r)) * Pow2(LimbBits - r)])

RECURSIVE BitLength(_)
BitLength(n) == IF n = 0 THEN 0 ELSE 1 + BitLength(n \div 2)

BigBitLength(a) ==
    IF a = <<>> THEN 0 ELSE LimbBits * (Len(a) - 1) + BitLength(a[Len(a)])

\* bit i of a, counted from 0 at the least significant end
BigBit(a, i) == (Limb(a, (i \div LimbBits) + 1) \div Pow2(i % LimbBits)) % 2

HalfBits == 27

HalfBase == Pow2(HalfBits)

\* Long division by d = dh * HalfBase + dl < 2^54, the remainder kept as
\* h * HalfBase + l: the bits j down to 0 of the limb v are brought down one at a
\* time, and q gains the quotient's bit for each.
RECURSIVE BigDivBits(_, _, _, _, _, _, _)
BigDivBits(dh, dl, h, l, q, v, j) ==
    IF j < 0 THEN [h |-> h, l |-> l, q |-> q]
    ELSE LET l2 == 2 * l + ((v \div Pow2(j)) % 2)
             l3 == l2 % HalfBase
             h2 == 2 * h + (l2 \div HalfBase)
             borrow == IF l3 < dl THEN 1 ELSE 0
         IN  IF h2 > dh \/ (h2 = dh /\ l3 >= dl)
             THEN BigDivBits(dh, dl, h2 - dh - borrow, l3 - dl + borrow * HalfBase,
                             2 * q + 1, v, j - 1)
             ELSE BigDivBits(dh, dl, h2, l3, 2 * q, v, j - 1)

\* [h, l, q] after the limbs Len(n) down to i of n; q is a limb sequence
RECURSIVE BigDivLimbs(_, _, _, _)
BigDivLimbs(n, dh, dl, i) ==
    IF i > Len(n) THEN [h |-> 0, l |-> 0, q |-> <<>>]
    ELSE LET prev == BigDivLimbs(n, dh, dl, i + 1)
             cur == BigDivBits(dh, dl, prev.h, prev.l, 0, n[i], LimbBits - 1)
         IN  [h |-> cur.h, l |-> cur.l, q |-> <<cur.q>> \o prev.q]

\* [q, r] with n = q * d + r and r < d, for 0 < d < 2^54
BigDivMod(n, d) ==
    LET dl == Limb(d, 1) + (Limb(d, 2) % Pow2(HalfBits - LimbBits)) * LimbBase
        dh == (Limb(d, 2) \div Pow2(HalfBits - LimbBits))
              + Limb(d, 3) * Pow2(2 * LimbBits - HalfBits)
              + Limb(d, 4) * Pow2(3 * LimbBits - HalfBits)
        res == BigDivLimbs(n, dh, dl, 1)
    IN  [q |-> BigTrim(res.q),
         r |-> BigAdd(BigFromInt(res.l), BigShl(BigFromInt(res.h), HalfBits))]

RECURSIVE TrailingZeros(_)
TrailingZeros(n) == IF n % 2 = 1 THEN 0 ELSE 1 + TrailingZeros(n \div 2)

\* the number of zero bits below the lowest one bit of a > 0
BigTrailingZeros(a) ==
    LET low == CHOOSE i \in 1..Len(a) : a[i] # 0 /\ \A j \in 1..(i - 1) : a[j] = 0
    IN  LimbBits * (low - 1) + TrailingZeros(a[low])

\* The binary64 value s * m * 2^e, with m odd (or m = 0, s = 1, e = 0).
F64(s, m, e) ==
    IF m = <<>> THEN [s |-> 1, m |-> <<>>, e |-> 0]
    ELSE LET tz == BigTrailingZeros(m)
         IN  [s |-> s, m |-> BigShr(m, tz), e |-> e + tz]

F64Zero == F64(1, <<>>, 0)

\* The binary64 value nearest to s * (m + f) * 2^e, where 0 <= f < 1 and f > 0
\* exactly if sticky; ties go to the even mantissa.
F64Round(s, m, e, sticky) ==
    LET len == BigBitLength(m)
        k == len - MantissaBits
    IN  IF k <= 0 THEN F64(s, m, e)
        ELSE LET q == BigShr(m, k)
                 rem == BigSub(m, BigShl(q, k))
                 c == BigCmp(rem, BigShl(<<1>>, k - 1))
                 up == c > 0 \/ (c = 0 /\ (sticky \/ BigBit(q, 0) = 1))
             IN  F64(s, IF up THEN BigAdd(q, <<1>>) ELSE q, e + k)

F64FromInt(i) == F64Round(IF i < 0 THEN -1 ELSE 1, BigFromInt(Abs(i)), 0, FALSE)

\* a + b before rounding: [s, m, e]
F64ExactSum(a, b) ==
    LET e == Min(a.e, b.e)
        ma == BigShl(a.m, a.e - e)
        mb == BigShl(b.m, b.e - e)
        c == BigCmp(ma, mb)
    IN  IF a.s = b.s THEN [s |-> a.s, m |-> BigAdd(ma, mb), e |-> e]
        ELSE IF c = 0 THEN [s |-> 1, m |-> <<>>, e |-> 0]
        ELSE IF c > 0 THEN [s |-> a.s, m |-> BigSub(ma, mb), e |-> e]
        ELSE [s |-> b.s, m |-> BigSub(mb, ma), e |-> e]

F64Neg(a) == IF a.m = <<>> THEN a ELSE [a EXCEPT !.s = -a.s]

F64Add(a, b) ==
    LET x == F64ExactSum(a, b) IN F64Round(x.s, x.m, x.e, FALSE)

F64Sub(a, b) == F64Add(a, F64Neg(b))

F64Mul(a, b) == F64Round(a.s * b.s, BigMul(a.m, b.m), a.e + b.e, FALSE)

\* a / b for b # 0: the quotient of the mantissas to at least 56 bits, then rounded
F64Div(a, b) ==
    IF a.m = <<>> THEN F64Zero
    ELSE LET k == Max(0, MantissaBits + 3 + BigBitLength(b.m) - BigBitLength(a.m))
             qr == BigDivMod(BigShl(a.m, k), b.m)
         IN  F64Round(a.s * b.s, qr.q, a.e - b.e - k, qr.r # <<>>)

\* -1, 0 or 1 as a < b, a = b or a > b
F64Cmp(a, b) ==
    LET x == F64ExactSum(a, F64Neg(b)) IN IF x.m = <<>> THEN 0 ELSE x.s

F64Gt(a, b) == F64Cmp(a, b) > 0

F64Lt(a, b) == F64Cmp(a, b) < 0

-----------------------------------------------------------------------------
(* Job status capabilities *)

KnownStatuses ==
    {"pending", "rendering", "processing_vlm", "awaiting_segmentation",
     "segmentation_complete", "compilation_pending", "compilation_complete",
     "compilation_failed", "refinement_in_progress", "refinement_complete",
     "refinement_failed", "failed", "completed"}

\* Status strings the client does not know (a later backend version).
UnknownStatuses == {"archived", "queued", ""}

Statuses == KnownStatuses \cup UnknownStatuses

\* The Job fields that vary in the model; getButtonVisibility reads status only.
Jobs ==
    [status : Statuses,
     initial_tex_s3_path : {Null, "tex"},
     final_pdf_s3_path : {Null, "pdf"},
     error_message : {Null, "error"}]

getButtonVisibilityNoPdfGuard(j) ==
    LET canDownloadPdf == j.status \in {"compilation_complete", "completed"}
    IN  [canDownloadInitialTex |-> FALSE,
         canDownloadFinalTex |-> FALSE,
         canDownloadPdf |-> canDownloadPdf,
         canDownloadTex |-> canDownloadPdf,
         canSegment |-> j.status = "awaiting_segmentation",
         canCompile |-> j.status = "segmentation_complete",
         canViewTex |-> j.status \notin {"pending", "rendering", "processing_vlm", "failed"}]

getButtonVisibilitySwapped(j) ==
    LET canDownloadPdf == j.status \in {"compilation_complete", "completed"}
    IN  [canDownloadInitialTex |-> FALSE,
         canDownloadFinalTex |-> FALSE,
         canDownloadPdf |-> canDownloadPdf,
         canDownloadTex |-> canDownloadPdf,
         canSegment |-> j.status = "awaiting_segmentation",
         canCompile |-> j.status \in {"segmentation_complete", "awaiting_segmentation"},
         canViewTex |-> j.status \notin {"pending", "rendering", "processing_vlm", "failed"}
                        /\ ~canDownloadPdf]

getButtonVisibilityPdfOnly(j) ==
    LET canDownloadPdf == j.status = "compilation_complete"
    IN  [canDownloadInitialTex |-> FALSE,
         canDownloadFinalTex |-> FALSE,
         canDownloadPdf |-> canDownloadPdf,
         canDownloadTex |-> canDownloadPdf,
         canSegment |-> j.status = "awaiting_segmentation",
         canCompile |-> j.status = "segmentation_complete",
         canViewTex |-> j.status \notin {"pending", "rendering", "processing_vlm", "failed"}
                        /\ ~canDownloadPdf]

getButtonVisibility(j) ==
    LET canDownloadPdf == j.status \in {"compilation_complete", "completed"}
        canDownloadTex == canDownloadPdf
        canViewTex == j.status \notin {"pending", "rendering", "processing_vlm", "failed"}
                      /\ ~canDownloadPdf
        canSegment == j.status = "awaiting_segmentation"
        canCompile == j.status = "segmentation_complete"
    IN  [canDownloadInitialTex |-> FALSE,
         canDownloadFinalTex |-> FALSE,
         canDownloadPdf |-> canDownloadPdf,
         canDownloadTex |-> canDownloadTex,
         canSegment |-> canSegment,
         canCompile |-> canCompile,
         canViewTex |-> canViewTex]

-----------------------------------------------------------------------------
(* The annotation collection: useSegmentationData *)

Labels == {"DIAGRAM-1", "DIAGRAM-2"}

PageNumbers == {1, 2}

\* The page list and the task list the backend serves for the job.
ServerPages ==
    <<[page_number |-> 1, image_url |-> "page-1.png"],
      [page_number |-> 2, image_url |-> "page-2.png"]>>

ServerTasks ==
    <<[placeholder |-> "DIAGRAM-1", description |-> "first figure"],
      [placeholder |-> "DIAGRAM-2", description |-> "second figure"]>>

\* Set<string> of the labels of a box list: new Set(boxes.map(box => box.label))
LabelSet(boxes) == {boxes[i].label : i \in 1..Len(boxes)}

\* prevBoxes.filter((_, index) => index !== indexToRemove), index counted from 0
FilterOutIndexOffByOne(boxes, indexToRemove) ==
    [k \in 1..(Len(boxes) - 1) |-> IF k < indexToRemove THEN boxes[k] ELSE boxes[k + 1]]

FilterOutIndex(boxes, indexToRemove) ==
    [k \in 1..(Len(boxes) - 1) |-> IF k < indexToRemove + 1 THEN boxes[k] ELSE boxes[k + 1]]

\* { ...box, ...updates }
Spread(box, updates) ==
    [f \in DOMAIN box |-> IF f \in DOMAIN updates THEN updates[f] ELSE box[f]]

\* segData.map(seg => ({ x: seg.x, ..., useEnhanced: seg.use_enhanced }))
MapSegmentation(seg) ==
    [x |-> seg.x, y |-> seg.y, width |-> seg.width, height |-> seg.height,
     label |-> seg.label, pageNumber |-> seg.pageNumber,
     enhancedS3Path |-> seg.enhanced_s3_path, useEnhanced |-> seg.use_enhanced]

MapSegmentations(segData) == [i \in 1..Len(segData) |-> MapSegmentation(segData[i])]

\* fetchData up to its first await: the three requests are sent
fetchData ==
    /\ loading' = TRUE
    /\ error' = Null
    /\ fetching' = fetching + 1
    /\ lastOp' = [op |-> "fetchData"]
    /\ UNCHANGED <<pageImages, segmentationTasks, boundingBoxes, completedTasks>>

FetchError == "Failed to load segmentation data"

\* fetchData after its awaits.  net: Promise.all rejected; pagesRes and tasksRes:
\* [ok, body]; segRes: [ok, status, isArray, body] (a 404 is a response that is
\* not ok; the status of a response that is not ok is only logged).
fetchDataResolve(net, pagesRes, tasksRes, segRes) ==
    LET pagesOk == ~net /\ pagesRes.ok
        tasksOk == pagesOk /\ tasksRes.ok
        segOk == tasksOk /\ segRes.ok /\ segRes.isArray
        existingBoxes == MapSegmentations(segRes.body)
    IN  /\ fetching > 0
        /\ fetching' = fetching - 1
        /\ pageImages' = IF pagesOk THEN pagesRes.body ELSE pageImages
        /\ segmentationTasks' = IF tasksOk THEN tasksRes.body ELSE segmentationTasks
        /\ boundingBoxes' = IF segOk THEN existingBoxes ELSE boundingBoxes
        /\ completedTasks' = IF segOk THEN LabelSet(existingBoxes) ELSE completedTasks
        /\ error' = IF tasksOk THEN error ELSE FetchError
        /\ loading' = FALSE
        /\ lastOp' = [op |-> "fetchDataResolve", loaded |-> segOk,
                      segData |-> IF segOk THEN segRes.body ELSE <<>>]

addBoundingBoxPrepends(box) ==
    /\ boundingBoxes' = <<box>> \o boundingBoxes
    /\ completedTasks' = completedTasks \cup {box.label}
    /\ UNCHANGED <<pageImages, segmentationTasks, loading, error, fetching>>

\* The caller (the hook's user, or handleDrawEnd) records the call in lastOp.
addBoundingBox(box) ==
    /\ boundingBoxes' = Append(boundingBoxes, box)
    /\ completedTasks' = completedTasks \cup {box.label}
    /\ UNCHANGED <<pageImages, segmentationTasks, loading, error, fetching>>

\* indexToRemove counts from 0; prevBoxes[indexToRemove] is undefined out of range
removeBoundingBoxByIndex(indexToRemove) ==
    LET found == indexToRemove >= 0 /\ indexToRemove < Len(boundingBoxes)
        newBoxes == FilterOutIndex(boundingBoxes, indexToRemove)
    IN  /\ boundingBoxes' = IF found THEN newBoxes ELSE boundingBoxes
        /\ completedTasks' = IF found THEN LabelSet(newBoxes) ELSE completedTasks
        /\ lastOp' = [op |-> "removeBoundingBoxByIndex", index |-> indexToRemove,
                      found |-> found,
                      label |-> IF found THEN boundingBoxes[indexToRemove + 1].label
                                ELSE Null]
        /\ UNCHANGED <<pageImages, segmentationTasks, loading, error, fetching>>

overwriteBoundingBoxesMerges(boxes) ==
    /\ boundingBoxes' = boxes
    /\ completedTasks' = completedTasks \cup LabelSet(boxes)
    /\ lastOp' = [op |-> "overwriteBoundingBoxes", boxes |-> boxes]
    /\ UNCHANGED <<pageImages, segmentationTasks, loading, error, fetching>>

overwriteBoundingBoxes(boxes) ==
    /\ boundingBoxes' = boxes
    /\ completedTasks' = LabelSet(boxes)
    /\ lastOp' = [op |-> "overwriteBoundingBoxes", boxes |-> boxes]
    /\ UNCHANGED <<pageImages, segmentationTasks, loading, error, fetching>>

updateBoundingBoxFirstOnly(label, updates) ==
    LET first == CHOOSE i \in 1..Len(boundingBoxes) :
                     /\ boundingBoxes[i].label = label
                     /\ \A k \in 1..(i - 1) : boundingBoxes[k].label # label
    IN  /\ boundingBoxes' =
               IF \E i \in 1..Len(boundingBoxes) : boundingBoxes[i].label = label
               THEN [boundingBoxes EXCEPT ![first] = Spread(@, updates)]
               ELSE boundingBoxes
        /\ lastOp' = [op |-> "updateBoundingBox", label |-> label, updates |-> updates]
        /\ UNCHANGED <<pageImages, segmentationTasks, completedTasks, loading, error,
                       fetching>>

updateBoundingBox(label, updates) ==
    /\ boundingBoxes' =
           [i \in 1..Len(boundingBoxes) |->
               IF boundingBoxes[i].label = label
               THEN Spread(boundingBoxes[i], updates)
               ELSE boundingBoxes[i]]
    /\ lastOp' = [op |-> "updateBoundingBox", label |-> label, updates |-> updates]
    /\ UNCHANGED <<pageImages, segmentationTasks, completedTasks, loading, error,
                   fetching>>

-----------------------------------------------------------------------------
(* Initial values *)

NoImage == [url |-> Null, naturalWidth |-> 0, naturalHeight |-> 0]

NoBox == [startX |-> 0, startY |-> 0, endX |-> 0, endY |-> 0, label |-> Null,
          pageNumber |-> 0]

ZeroSize == [width |-> FromInt(0), height |-> FromInt(0)]

UnitScale == [x |-> FromInt(1), y |-> FromInt(1)]

\* useSegmentationData after mount: the mount effect has called fetchData
DataInit ==
    /\ pageImages = <<>>
    /\ segmentationTasks = <<>>
    /\ boundingBoxes = <<>>
    /\ completedTasks = {}
    /\ loading = TRUE
    /\ error = Null
    /\ fetching = 1

LoaderUnmounted ==
    /\ containerSize = [width |-> 0, height |-> 0]
    /\ imageObj = NoImage
    /\ renderedImageSize = ZeroSize
    /\ imageScale = UnitScale
    /\ imageCache = {}
    /\ inflight = {}

DrawInit ==
    /\ isDrawing = FALSE
    /\ newBox = NoBox

PageInit ==
    /\ currentTaskIndex = 0
    /\ currentPageIndex = 0

\* enhanceResult when it is null
NoResult == [label |-> Null, enhancedS3Path |-> Null, segmentationId |-> Null]

\* The urls of the page images the backend serves
ImageUrls == {"page-1.png", "page-2.png", "page-3.png", "page-4.png"}

\* page.tsx after mount, with nothing requested and no image preloaded; the
\* page images loading or loaded have had one load each
SessionInit ==
    /\ isSaving = FALSE
    /\ posts = <<>>
    /\ route = "segment"
    /\ enhancingLabel = Null
    /\ enhanceModalOpen = FALSE
    /\ enhanceResult = NoResult
    /\ enhanceRequests = <<>>
    /\ patches = <<>>
    /\ loadsStarted = [url \in ImageUrls |->
                          IF url \in inflight \cup imageCache THEN 1 ELSE 0]
    /\ prefetching = {}
    /\ prefetched = {}
    /\ preloading = {}
    /\ preloadCache = {}
    /\ preloadedJobs = {}
    /\ preloadsPending = 0
    /\ inputKinds = {}
    /\ jobStatus = "awaiting_segmentation"
    /\ abandoned = 0
    /\ OtherPagesInit

-----------------------------------------------------------------------------
(* The jobs table: one row rendered from a Job *)

\* A row of the jobs table is rendered for job j (first render or after a poll).
RenderJobRow(j) ==
    /\ job' = j
    /\ buttons' = getButtonVisibility(j)
    /\ lastOp' = [op |-> "RenderJobRow"]
    /\ UNCHANGED <<dataVars, loaderVars, drawVars, pageVars, sessionVars>>

StatusInit ==
    /\ job \in Jobs
    /\ buttons = getButtonVisibility(job)
    /\ DataInit /\ LoaderUnmounted /\ DrawInit /\ PageInit /\ SessionInit
    /\ lastOp = [op |-> "init"]

StatusNext == \E j \in Jobs : RenderJobRow(j)

SpecStatus == StatusInit /\ [][StatusNext]_vars

-----------------------------------------------------------------------------
(* The hook useSegmentationData on its own *)

MaxBoxes == 2

MaxLoad == 2

MaxFetches == 1

Rect1 == [x |-> Num(1, 10), y |-> Num(1, 5), width |-> Num(1, 2), height |-> Num(1, 4)]

NewBoundingBox(rect, label, pageNumber) ==
    [x |-> rect.x, y |-> rect.y, width |-> rect.width, height |-> rect.height,
     label |-> label, pageNumber |-> pageNumber,
     enhancedS3Path |-> Undefined, useEnhanced |-> Undefined]

InputBoxes ==
    {NewBoundingBox(Rect1, "DIAGRAM-1", 1), NewBoundingBox(Rect1, "DIAGRAM-1", 2),
     NewBoundingBox(Rect1, "DIAGRAM-2", 1)}

\* The partial updates page.tsx passes: the enhancement preference of a label
InputUpdates ==
    {[enhancedS3Path |-> "enhanced.png", useEnhanced |-> "false"],
     [enhancedS3Path |-> "enhanced.png", useEnhanced |-> "true"]}

ApiSegmentation(rect, label, pageNumber, path, use) ==
    [id |-> 1, page_number |-> pageNumber, x |-> rect.x, y |-> rect.y,
     width |-> rect.width, height |-> rect.height, label |-> label,
     pageNumber |-> pageNumber, enhanced_s3_path |-> path, use_enhanced |-> use]

\* Saved segmentations as GET /segmentations returns them
ApiSegmentations ==
    {ApiSegmentation(Rect1, "DIAGRAM-1", 1, Undefined, Undefined),
     ApiSegmentation(Rect1, "DIAGRAM-2", 1, "enhanced.png", "true")}

SeqsUpTo(S, n) == UNION {[1..k -> S] : k \in 0..n}

OkPages == [ok |-> TRUE, body |-> ServerPages]

OkTasks == [ok |-> TRUE, body |-> ServerTasks]

Failed == [ok |-> FALSE, body |-> <<>>]

\* The outcomes of the three requests of one fetchData call
FetchOutcomes(segLists) ==
    {<<TRUE, Failed, Failed, [ok |-> FALSE, status |-> 0, isArray |-> FALSE, body |-> <<>>]>>,
     <<FALSE, Failed, OkTasks, [ok |-> TRUE, status |-> 200, isArray |-> TRUE, body |-> <<>>]>>,
     <<FALSE, OkPages, Failed, [ok |-> TRUE, status |-> 200, isArray |-> TRUE, body |-> <<>>]>>,
     <<FALSE, OkPages, OkTasks, [ok |-> FALSE, status |-> 404, isArray |-> FALSE, body |-> <<>>]>>,
     <<FALSE, OkPages, OkTasks, [ok |-> FALSE, status |-> 500, isArray |-> FALSE, body |-> <<>>]>>,
     <<FALSE, OkPages, OkTasks, [ok |-> TRUE, status |-> 200, isArray |-> FALSE, body |-> <<>>]>>}
    \cup {<<FALSE, OkPages, OkTasks,
            [ok |-> TRUE, status |-> 200, isArray |-> TRUE, body |-> segData]>> :
            segData \in segLists}

otherThanData == <<sessionVars, statusVars, loaderVars, drawVars, pageVars>>

DataNext ==
    \/ /\ fetching < MaxFetches
       /\ fetchData
       /\ UNCHANGED otherThanData
    \/ \E o \in FetchOutcomes(SeqsUpTo(ApiSegmentations, MaxLoad)) :
           /\ fetchDataResolve(o[1], o[2], o[3], o[4])
           /\ UNCHANGED otherThanData
    \/ \E box \in InputBoxes :
           /\ Len(boundingBoxes) < MaxBoxes
           /\ addBoundingBox(box)
           /\ lastOp' = [op |-> "addBoundingBox", box |-> box]
           /\ UNCHANGED otherThanData
    \/ \E i \in (0 - 1)..MaxBoxes :
           /\ removeBoundingBoxByIndex(i)
           /\ UNCHANGED otherThanData
    \/ \E boxes \in SeqsUpTo(InputBoxes, MaxLoad) :
           /\ overwriteBoundingBoxes(boxes)
           /\ UNCHANGED otherThanData
    \/ \E l \in Labels, u \in InputUpdates :
           /\ updateBoundingBox(l, u)
           /\ UNCHANGED otherThanData

DataSpecInit ==
    /\ job = [status |-> "awaiting_segmentation", initial_tex_s3_path |-> "tex",
              final_pdf_s3_path |-> Null, error_message |-> Null]
    /\ buttons = getButtonVisibility(job)
    /\ DataInit /\ LoaderUnmounted /\ DrawInit /\ PageInit /\ SessionInit
    /\ lastOp = [op |-> "init"]

SpecData == DataSpecInit /\ [][DataNext]_vars

\* Partial<BoundingBox> values other than the enhancement preference
OtherUpdates ==
    {[label |-> "DIAGRAM-2"], [pageNumber |-> 2],
     [label |-> "DIAGRAM-1", useEnhanced |-> "true"]}

\* The operations of the hook called with any of their arguments
HookNext ==
    \/ DataNext
    \/ \E l \in Labels, u \in OtherUpdates :
           /\ updateBoundingBox(l, u)
           /\ UNCHANGED otherThanData

SpecHook == DataSpecInit /\ [][HookNext]_vars

-----------------------------------------------------------------------------
(* Page geometry: useImageLoader and the imageOffset memo of page.tsx *)

\* The natural size of the image behind a page url (set by the backend's renderer).
ImageOf(url) ==
    IF url = "page-1.png"
    THEN [url |-> url, naturalWidth |-> 1200, naturalHeight |-> 1600]
    ELSE [url |-> url, naturalWidth |-> 1600, naturalHeight |-> 1200]

\* calculateSizes(container, img): the three states it sets.  container holds
\* clientWidth and clientHeight of the mounted container element.
calculateSizes(container, img) ==
    IF img = NoImage \/ img.naturalWidth = 0 \/ img.naturalHeight = 0
    THEN [containerSize |-> container, renderedImageSize |-> ZeroSize,
          imageScale |-> UnitScale]
    ELSE LET containerWidth == FromInt(container.width)
             containerHeight == FromInt(container.height)
             naturalWidth == FromInt(img.naturalWidth)
             naturalHeight == FromInt(img.naturalHeight)
             imgAspectRatio == JsDiv(naturalWidth, naturalHeight)
             containerAspectRatio == JsDiv(containerWidth, containerHeight)
             wider == JsGt(imgAspectRatio, containerAspectRatio)
             renderWidth == IF wider THEN containerWidth
                            ELSE JsMul(containerHeight, imgAspectRatio)
             renderHeight == IF wider THEN JsDiv(containerWidth, imgAspectRatio)
                             ELSE containerHeight
         IN  [containerSize |-> container,
              renderedImageSize |-> [width |-> renderWidth, height |-> renderHeight],
              imageScale |-> [x |-> JsDiv(naturalWidth, renderWidth),
                              y |-> JsDiv(naturalHeight, renderHeight)]]

\* (containerSize - renderedImageSize) without the halving
imageOffsetUncentered ==
    [x |-> JsSub(FromInt(containerSize.width), renderedImageSize.width),
     y |-> JsSub(FromInt(containerSize.height), renderedImageSize.height)]

\* The imageOffset memo, recomputed at every render from the two size states.
imageOffset ==
    IF \/ containerSize.width = 0
       \/ containerSize.height = 0
       \/ Falsy(renderedImageSize.width)
       \/ Falsy(renderedImageSize.height)
    THEN [x |-> FromInt(0), y |-> FromInt(0)]
    ELSE [x |-> JsDiv(JsSub(FromInt(containerSize.width), renderedImageSize.width),
                      FromInt(2)),
          y |-> JsDiv(JsSub(FromInt(containerSize.height), renderedImageSize.height),
                      FromInt(2))]

\* img.onload of the Image the page effect created for url
imageOnload(url) ==
    LET img == ImageOf(url)
        sizes == calculateSizes(containerSize, img)
    IN  /\ url \in inflight
        /\ inflight' = inflight \ {url}
        /\ imageCache' = imageCache \cup {url}
        /\ imageObj' = img
        /\ containerSize' = sizes.containerSize
        /\ renderedImageSize' = sizes.renderedImageSize
        /\ imageScale' = sizes.imageScale
        /\ lastOp' = [op |-> "imageOnload", url |-> url]

\* a resize that records the container's size and keeps the rendered size
handleResizeContainerOnly(client) ==
    /\ containerSize' = client
    /\ lastOp' = [op |-> "handleResize"]
    /\ UNCHANGED <<renderedImageSize, imageScale, imageObj, imageCache, inflight>>

\* The window 'resize' listener; client is the container's size after the resize.
handleResize(client) ==
    LET sizes == calculateSizes(client, imageObj)
    IN  /\ containerSize' = sizes.containerSize
        /\ renderedImageSize' = sizes.renderedImageSize
        /\ imageScale' = sizes.imageScale
        /\ lastOp' = [op |-> "handleResize"]
        /\ UNCHANGED <<imageObj, imageCache, inflight>>

-----------------------------------------------------------------------------
(* Page geometry as binary64 computes it: calculateSizes, imageOffset, the
   normalization of handleDrawEnd and the pixel conversion of renderedBoxDivs,
   each operation rounded *)

F64One == F64FromInt(1)

F64Max(a, b) == IF F64Gt(b, a) THEN b ELSE a

F64Min(a, b) == IF F64Lt(b, a) THEN b ELSE a

\* The hook's three size states for a fitted image
Sizes64(container, naturalWidth, naturalHeight, renderWidth, renderHeight) ==
    [containerSize |-> container,
     renderedImageSize |-> [width |-> renderWidth, height |-> renderHeight],
     imageScale |-> [x |-> F64Div(naturalWidth, renderWidth),
                     y |-> F64Div(naturalHeight, renderHeight)]]

\* The branches of calculateSizes exchanged
FitToContainer64Flipped(container, containerWidth, containerHeight, naturalWidth, naturalHeight, imgAspectRatio) ==
    IF ~F64Gt(imgAspectRatio, F64Div(containerWidth, containerHeight))
    THEN Sizes64(container, naturalWidth, naturalHeight,
                 containerWidth, F64Div(containerWidth, imgAspectRatio))
    ELSE Sizes64(container, naturalWidth, naturalHeight,
                 F64Mul(containerHeight, imgAspectRatio), containerHeight)

\* The branches of calculateSizes on imgAspectRatio > containerAspectRatio
FitToContainer64(container, containerWidth, containerHeight, naturalWidth, naturalHeight, imgAspectRatio) ==
    IF F64Gt(imgAspectRatio, F64Div(containerWidth, containerHeight))
    THEN Sizes64(container, naturalWidth, naturalHeight,
                 containerWidth, F64Div(containerWidth, imgAspectRatio))
    ELSE Sizes64(container, naturalWidth, naturalHeight,
                 F64Mul(containerHeight, imgAspectRatio), containerHeight)

\* calculateSizes(container, img), for a mounted container of positive size
calculateSizes64(container, img) ==
    IF img = NoImage \/ img.naturalWidth = 0 \/ img.naturalHeight = 0
    THEN [containerSize |-> container,
          renderedImageSize |-> [width |-> F64Zero, height |-> F64Zero],
          imageScale |-> [x |-> F64One, y |-> F64One]]
    ELSE FitToContainer64(container,
                          F64FromInt(container.width), F64FromInt(container.height),
                          F64FromInt(img.naturalWidth), F64FromInt(img.naturalHeight),
                          F64Div(F64FromInt(img.naturalWidth),
                                 F64FromInt(img.naturalHeight)))

\* The imageOffset memo over binary64 sizes
imageOffset64 ==
    IF \/ containerSize.width = 0
       \/ containerSize.height = 0
       \/ renderedImageSize.width = F64Zero
       \/ renderedImageSize.height = F64Zero
    THEN [x |-> F64Zero, y |-> F64Zero]
    ELSE [x |-> F64Div(F64Sub(F64FromInt(containerSize.width), renderedImageSize.width),
                       F64FromInt(2)),
          y |-> F64Div(F64Sub(F64FromInt(containerSize.height), renderedImageSize.height),
                       F64FromInt(2))]

\* The outside-image test of handleDrawStart
OutsideImage64(pos, offset) ==
    \/ F64Lt(F64FromInt(pos.x), offset.x)
    \/ F64Gt(F64FromInt(pos.x), F64Add(offset.x, renderedImageSize.width))
    \/ F64Lt(F64FromInt(pos.y), offset.y)
    \/ F64Gt(F64FromInt(pos.y), F64Add(offset.y, renderedImageSize.height))

\* handleDrawEnd: clampedX = Math.max(0, Math.min(1, (startX - offset) / size))
ToNormalized64(start, offset, size) ==
    F64Max(F64Zero, F64Min(F64One, F64Div(F64Sub(F64FromInt(start), offset), size)))

\* renderedBoxDivs without the offset
ToPixel64NoOffset(relative, offset, size) == F64Mul(relative, size)

\* renderedBoxDivs: pixelX = box.x * renderedImageSize.width + imageOffset.x
ToPixel64(relative, offset, size) == F64Add(F64Mul(relative, size), offset)

\* setContainerSize, setRenderedImageSize and setImageScale of calculateSizes
SetSizes64(sizes) ==
    /\ containerSize' = sizes.containerSize
    /\ renderedImageSize' = sizes.renderedImageSize
    /\ imageScale' = sizes.imageScale

\* The window 'resize' listener
handleResize64(client) ==
    /\ SetSizes64(calculateSizes64(client, imageObj))
    /\ lastOp' = [op |-> "handleResize"]
    /\ UNCHANGED <<imageObj, imageCache, inflight>>

\* The committed corner (x, y) of a box drawn from pos, and the pixel position
\* renderedBoxDivs gives it under the same geometry
RenderBox(pos, offset, x, y) ==
    lastOp' = [op |-> "RenderCommitted", pos |-> pos,
               box |-> [x |-> x, y |-> y],
               pixel |-> [x |-> ToPixel64(x, offset.x, renderedImageSize.width),
                          y |-> ToPixel64(y, offset.y, renderedImageSize.height)]]

RenderCommittedAt(pos, offset) ==
    /\ ~OutsideImage64(pos, offset)
    /\ RenderBox(pos, offset,
                 ToNormalized64(pos.x, offset.x, renderedImageSize.width),
                 ToNormalized64(pos.y, offset.y, renderedImageSize.height))
    /\ UNCHANGED loaderVars

\* A box whose corner was drawn at pos (inside the image) is committed and then
\* rendered under the same geometry; lastOp holds what each conversion computed.
RenderCommitted(pos) == RenderCommittedAt(pos, imageOffset64)

LayoutImages ==
    {[url |-> "page-1.png", naturalWidth |-> 1200, naturalHeight |-> 1600],
     [url |-> "page-2.png", naturalWidth |-> 1600, naturalHeight |-> 1200],
     [url |-> "page-3.png", naturalWidth |-> 310, naturalHeight |-> 300]}

LayoutContainers ==
    {[width |-> 800, height |-> 600], [width |-> 1600, height |-> 1200],
     [width |-> 310, height |-> 300], [width |-> 1000, height |-> 700]}

LayoutXs == {0, 7, 175, 196, 310, 625}

LayoutYs == {0, 21, 299, 300, 599}

LayoutPositions == {[x |-> px, y |-> py] : px \in LayoutXs, py \in LayoutYs}

\* The size states as calculateSizes left them
SizesAre64(sizes) ==
    /\ containerSize = sizes.containerSize
    /\ renderedImageSize = sizes.renderedImageSize
    /\ imageScale = sizes.imageScale

\* The loader after the page image loaded and calculateSizes ran.
LayoutInit ==
    /\ job = [status |-> "awaiting_segmentation", initial_tex_s3_path |-> "tex",
              final_pdf_s3_path |-> Null, error_message |-> Null]
    /\ buttons = getButtonVisibility(job)
    /\ pageImages = ServerPages
    /\ segmentationTasks = ServerTasks
    /\ boundingBoxes = <<>>
    /\ completedTasks = {}
    /\ loading = FALSE
    /\ error = Null
    /\ fetching = 0
    /\ imageObj \in LayoutImages
    /\ \E client \in LayoutContainers : SizesAre64(calculateSizes64(client, imageObj))
    /\ imageCache = {imageObj.url}
    /\ inflight = {}
    /\ DrawInit /\ PageInit /\ SessionInit
    /\ lastOp = [op |-> "init"]

LayoutNext ==
    \/ \E client \in LayoutContainers :
           /\ handleResize64(client)
           /\ UNCHANGED <<sessionVars, statusVars, dataVars, drawVars, pageVars>>
    \/ \E pos \in LayoutPositions :
           /\ RenderCommitted(pos)
           /\ UNCHANGED <<sessionVars, statusVars, dataVars, drawVars, pageVars>>

SpecLayout == LayoutInit /\ [][LayoutNext]_vars

-----------------------------------------------------------------------------
(* The draw gesture: useDrawing *)

MinPixelSize == 5

MinRelativeSize == Num(1, 100)

HasCurrentTask == currentTaskIndex >= 0 /\ currentTaskIndex < Len(segmentationTasks)

HasCurrentPage == currentPageIndex >= 0 /\ currentPageIndex < Len(pageImages)

\* segmentationTasks?.[currentTaskIndex] and pageImages?.[currentPageIndex]
currentTask == segmentationTasks[currentTaskIndex + 1]

currentPage == pageImages[currentPageIndex + 1]

\* a check that also turns away the positions on the image's border
OutsideImageOrOnBorder(pos) ==
    \/ JsLe(FromInt(pos.x), imageOffset.x)
    \/ JsLe(JsAdd(imageOffset.x, renderedImageSize.width), FromInt(pos.x))
    \/ JsLe(FromInt(pos.y), imageOffset.y)
    \/ JsLe(JsAdd(imageOffset.y, renderedImageSize.height), FromInt(pos.y))

\* pos is outside the rendered image (the check of handleDrawStart)
OutsideImage(pos) ==
    \/ JsLt(FromInt(pos.x), imageOffset.x)
    \/ JsGt(FromInt(pos.x), JsAdd(imageOffset.x, renderedImageSize.width))
    \/ JsLt(FromInt(pos.y), imageOffset.y)
    \/ JsGt(FromInt(pos.y), JsAdd(imageOffset.y, renderedImageSize.height))

handleDrawStart(pos) ==
    IF ~HasCurrentTask \/ ~HasCurrentPage
    THEN /\ lastOp' = [op |-> "handleDrawStart", result |-> "warning"]
         /\ UNCHANGED drawVars
    ELSE IF OutsideImage(pos)
    THEN /\ lastOp' = [op |-> "handleDrawStart", result |-> "outside"]
         /\ UNCHANGED drawVars
    ELSE /\ isDrawing' = TRUE
         /\ newBox' = [startX |-> pos.x, startY |-> pos.y, endX |-> pos.x,
                       endY |-> pos.y, label |-> currentTask.placeholder,
                       pageNumber |-> currentPage.page_number]
         /\ lastOp' = [op |-> "handleDrawStart", result |-> "started"]

\* a move that does not test isDrawing
handleDrawMoveUnguarded(pos) ==
    /\ newBox' = [newBox EXCEPT !.endX = pos.x, !.endY = pos.y]
    /\ lastOp' = [op |-> "handleDrawMove", result |-> "moved"]
    /\ UNCHANGED isDrawing

handleDrawMove(pos) ==
    IF ~isDrawing \/ newBox = NoBox
    THEN /\ lastOp' = [op |-> "handleDrawMove", result |-> "ignored"]
         /\ UNCHANGED drawVars
    ELSE /\ newBox' = [newBox EXCEPT !.endX = pos.x, !.endY = pos.y]
         /\ lastOp' = [op |-> "handleDrawMove", result |-> "moved"]
         /\ UNCHANGED isDrawing

\* width > 5 && height > 5
MeaningfulPixels(width, height) == width > MinPixelSize /\ height > MinPixelSize

\* clampedWidth > 0.01 && clampedHeight > 0.01
MeaningfulRelativeEither(clampedWidth, clampedHeight) ==
    JsGt(clampedWidth, MinRelativeSize) \/ JsGt(clampedHeight, MinRelativeSize)

MeaningfulRelative(clampedWidth, clampedHeight) ==
    JsGt(clampedWidth, MinRelativeSize) /\ JsGt(clampedHeight, MinRelativeSize)

\* Math.max(0, Math.min(1, relative))
ClampStart(relative) == MathMax(FromInt(0), MathMin(FromInt(1), relative))

\* Math.max(0, Math.min(1 - clampedStart, relativeExtent))
ClampExtentToOne(clampedStart, relativeExtent) ==
    MathMax(FromInt(0), MathMin(FromInt(1), relativeExtent))

ClampExtent(clampedStart, relativeExtent) ==
    MathMax(FromInt(0), MathMin(JsSub(FromInt(1), clampedStart), relativeExtent))

\* The numbers handleDrawEnd computes from the drawn box and the current geometry.
DrawnBox(box) ==
    LET startX == Min(box.startX, box.endX)
        startY == Min(box.startY, box.endY)
        endX == Max(box.startX, box.endX)
        endY == Max(box.startY, box.endY)
        width == endX - startX
        height == endY - startY
        relativeX == JsDiv(JsSub(FromInt(startX), imageOffset.x), renderedImageSize.width)
        relativeY == JsDiv(JsSub(FromInt(startY), imageOffset.y), renderedImageSize.height)
        relativeWidth == JsDiv(FromInt(width), renderedImageSize.width)
        relativeHeight == JsDiv(FromInt(height), renderedImageSize.height)
        clampedX == ClampStart(relativeX)
        clampedY == ClampStart(relativeY)
    IN  [width |-> width, height |-> height,
         clampedX |-> clampedX, clampedY |-> clampedY,
         clampedWidth |-> ClampExtent(clampedX, relativeWidth),
         clampedHeight |-> ClampExtent(clampedY, relativeHeight)]

\* handleGoToNextTask, with the completedTasks of the render the handler closed over
\* A handleGoToNextTask that does not look at the completion set
handleGoToNextTaskAlways ==
    currentTaskIndex' =
        IF /\ HasCurrentTask
           /\ currentTaskIndex < Len(segmentationTasks) - 1
        THEN currentTaskIndex + 1
        ELSE currentTaskIndex

handleGoToNextTask ==
    currentTaskIndex' =
        IF /\ HasCurrentTask
           /\ currentTask.placeholder \notin completedTasks
           /\ currentTaskIndex < Len(segmentationTasks) - 1
        THEN currentTaskIndex + 1
        ELSE currentTaskIndex

\* onMouseUp, onMouseLeave, onTouchEnd
handleDrawEnd ==
    IF ~isDrawing \/ newBox = NoBox
    THEN /\ lastOp' = [op |-> "handleDrawEnd", toast |-> "ignored"]
         /\ UNCHANGED <<drawVars, dataVars, currentTaskIndex>>
    ELSE LET d == DrawnBox(newBox)
             finalRelativeBox ==
                 [x |-> d.clampedX, y |-> d.clampedY, width |-> d.clampedWidth,
                  height |-> d.clampedHeight, label |-> newBox.label,
                  pageNumber |-> newBox.pageNumber,
                  enhancedS3Path |-> Undefined, useEnhanced |-> Undefined]
         IN  /\ isDrawing' = FALSE
             /\ newBox' = NoBox
             /\ IF MeaningfulPixels(d.width, d.height)
                THEN IF MeaningfulRelative(d.clampedWidth, d.clampedHeight)
                     THEN /\ addBoundingBox(finalRelativeBox)
                          /\ handleGoToNextTask
                          /\ lastOp' = [op |-> "handleDrawEnd", toast |-> "added"]
                     ELSE /\ lastOp' = [op |-> "handleDrawEnd",
                                        toast |-> "tooSmallAfterClamping"]
                          /\ UNCHANGED <<boundingBoxes, completedTasks, currentTaskIndex>>
                ELSE /\ lastOp' = [op |-> "handleDrawEnd", toast |-> "tooSmall"]
                     /\ UNCHANGED <<boundingBoxes, completedTasks, currentTaskIndex>>
             /\ UNCHANGED <<pageImages, segmentationTasks, loading, error, fetching>>

-----------------------------------------------------------------------------
(* The workspace with its data and page image requested: gestures on one page *)

MaxDrawnBoxes == 1

ContainerSizes == {[width |-> 800, height |-> 600], [width |-> 1600, height |-> 1200]}

PointerXs == {0, 350, 355, 356, 621, 1300}

PointerYs == {0, 6, 610}

PointerPositions == {[x |-> px, y |-> py] : px \in PointerXs, py \in PointerYs}

\* The workspace after fetchData delivered the pages and tasks (no saved
\* segmentations) and the page effect created the Image of the first page.
GestureInit ==
    /\ job = [status |-> "awaiting_segmentation", initial_tex_s3_path |-> "tex",
              final_pdf_s3_path |-> Null, error_message |-> Null]
    /\ buttons = getButtonVisibility(job)
    /\ pageImages = ServerPages
    /\ segmentationTasks = ServerTasks
    /\ boundingBoxes = <<>>
    /\ completedTasks = {}
    /\ loading = FALSE
    /\ error = Null
    /\ fetching = 0
    /\ containerSize \in ContainerSizes
    /\ imageObj = NoImage
    /\ renderedImageSize = ZeroSize
    /\ imageScale = UnitScale
    /\ imageCache = {}
    /\ inflight = {"page-1.png"}
    /\ DrawInit /\ PageInit /\ SessionInit
    /\ lastOp = [op |-> "init"]

GestureNext ==
    \/ \E url \in inflight :
           /\ imageOnload(url)
           /\ UNCHANGED <<sessionVars, statusVars, dataVars, drawVars, pageVars>>
    \/ \E pos \in PointerPositions :
           /\ Len(boundingBoxes) < MaxDrawnBoxes
           /\ handleDrawStart(pos)
           /\ UNCHANGED <<sessionVars, statusVars, dataVars, loaderVars, pageVars>>
    \/ \E pos \in PointerPositions :
           /\ handleDrawMove(pos)
           /\ UNCHANGED <<sessionVars, statusVars, dataVars, loaderVars, pageVars>>
    \/ /\ handleDrawEnd
       /\ UNCHANGED <<sessionVars, statusVars, loaderVars, currentPageIndex>>
    \/ \E client \in ContainerSizes :
           /\ handleResize(client)
           /\ UNCHANGED <<sessionVars, statusVars, dataVars, drawVars, pageVars>>

SpecGesture == GestureInit /\ [][GestureNext]_vars

-----------------------------------------------------------------------------
(* The workspace in an 800x600 container: gestures between the corners, the
   edge midpoints and the centre of the first page's rendered image *)

CornerContainer == [width |-> 800, height |-> 600]

CornerXs == {175, 400, 625}

CornerYs == {0, 300, 600}

CornerPositions == {[x |-> px, y |-> py] : px \in CornerXs, py \in CornerYs}

CornerInit == GestureInit /\ containerSize = CornerContainer

CornerNext ==
    \/ \E url \in inflight :
           /\ imageOnload(url)
           /\ UNCHANGED <<sessionVars, statusVars, dataVars, drawVars, pageVars>>
    \/ \E pos \in CornerPositions :
           /\ Len(boundingBoxes) < MaxDrawnBoxes
           /\ handleDrawStart(pos)
           /\ UNCHANGED <<sessionVars, statusVars, dataVars, loaderVars, pageVars>>
    \/ \E pos \in CornerPositions :
           /\ handleDrawMove(pos)
           /\ UNCHANGED <<sessionVars, statusVars, dataVars, loaderVars, pageVars>>
    \/ /\ handleDrawEnd
       /\ UNCHANGED <<sessionVars, statusVars, loaderVars, currentPageIndex>>
    \/ \E client \in ContainerSizes :
           /\ handleResize(client)
           /\ UNCHANGED <<sessionVars, statusVars, dataVars, drawVars, pageVars>>

SpecCorner == CornerInit /\ [][CornerNext]_vars

-----------------------------------------------------------------------------
(* The workspace in an 800x600 container whose data arrived with or without
   pages and tasks: the same gestures between the corners *)

StartInit ==
    /\ job = [status |-> "awaiting_segmentation", initial_tex_s3_path |-> "tex",
              final_pdf_s3_path |-> Null, error_message |-> Null]
    /\ buttons = getButtonVisibility(job)
    /\ pageImages \in {<<>>, ServerPages}
    /\ segmentationTasks \in {<<>>, ServerTasks}
    /\ boundingBoxes = <<>>
    /\ completedTasks = {}
    /\ loading = FALSE
    /\ error = Null
    /\ fetching = 0
    /\ containerSize = CornerContainer
    /\ imageObj = NoImage
    /\ renderedImageSize = ZeroSize
    /\ imageScale = UnitScale
    /\ imageCache = {}
    /\ inflight = IF pageImages = <<>> THEN {} ELSE {"page-1.png"}
    /\ DrawInit /\ PageInit /\ SessionInit
    /\ lastOp = [op |-> "init"]

SpecStart == StartInit /\ [][CornerNext]_vars

-----------------------------------------------------------------------------
(* The events of the container: drawingEventHandlers and getPointerPosition
   of useDrawing.ts.  A mouse event carries clientX and clientY; a touch event
   carries the list of the touches on the surface, which is empty at the
   touchend of the only finger. *)

\* containerRef.current.getBoundingClientRect(): the container below the
\* page header, beside the task list
ContainerRect == [left |-> 24, top |-> 96]

NoPosition == [none |-> TRUE]

MouseAt(pos) == [clientX |-> pos.x + ContainerRect.left,
                 clientY |-> pos.y + ContainerRect.top]

TouchAt(pos) == [touches |-> <<MouseAt(pos)>>]

TouchLifted == [touches |-> <<>>]

\* the touch branch reads the client position without the container's rect
getPointerPositionOfPage(e) ==
    IF "touches" \in DOMAIN e
    THEN IF Len(e.touches) = 0
         THEN NoPosition
         ELSE [x |-> e.touches[1].clientX, y |-> e.touches[1].clientY]
    ELSE [x |-> e.clientX - ContainerRect.left, y |-> e.clientY - ContainerRect.top]

getPointerPosition(e) ==
    IF "touches" \in DOMAIN e
    THEN IF Len(e.touches) = 0
         THEN NoPosition
         ELSE [x |-> e.touches[1].clientX - ContainerRect.left,
               y |-> e.touches[1].clientY - ContainerRect.top]
    ELSE [x |-> e.clientX - ContainerRect.left, y |-> e.clientY - ContainerRect.top]

\* handleDrawStart(e): the position is read after the task and page check
handleDrawStartEvent(e) ==
    IF HasCurrentTask /\ HasCurrentPage /\ getPointerPosition(e) = NoPosition
    THEN /\ lastOp' = [op |-> "handleDrawStart", result |-> "noPosition"]
         /\ UNCHANGED drawVars
    ELSE handleDrawStart(getPointerPosition(e))

\* handleDrawMove(e): the position is read after the isDrawing check
handleDrawMoveEvent(e) ==
    IF isDrawing /\ newBox # NoBox /\ getPointerPosition(e) = NoPosition
    THEN /\ lastOp' = [op |-> "handleDrawMove", result |-> "noPosition"]
         /\ UNCHANGED drawVars
    ELSE handleDrawMove(getPointerPosition(e))

\* drawingEventHandlers
onMouseDown(e) == handleDrawStartEvent(e)

onMouseMove(e) == handleDrawMoveEvent(e)

onMouseUp(e) == handleDrawEnd

onMouseLeave(e) == handleDrawEnd

onTouchStart(e) == handleDrawStartEvent(e)

onTouchMove(e) == handleDrawMoveEvent(e)

onTouchEnd(e) == handleDrawEnd

\* positions in the container: left of the image, inside it, and below it
EventXs == {0, 350, 621}

EventYs == {6, 610}

EventPositions == {[x |-> px, y |-> py] : px \in EventXs, py \in EventYs}

otherThanPointer == <<statusVars, loaderVars, saveVars, enhanceVars, preloadVars, jobStatus,
                      abandoned,
                   otherPagesVars>>

PointerNext ==
    \/ \E url \in inflight :
           /\ imageOnload(url)
           /\ UNCHANGED <<sessionVars, statusVars, dataVars, drawVars, pageVars>>
    \/ \E pos \in EventPositions :
           /\ Len(boundingBoxes) < MaxDrawnBoxes
           /\ onMouseDown(MouseAt(pos))
           /\ inputKinds' = {"mouse"}
           /\ UNCHANGED <<otherThanPointer, dataVars, pageVars>>
    \/ \E pos \in EventPositions :
           /\ onMouseMove(MouseAt(pos))
           /\ inputKinds' = inputKinds \cup {"mouse"}
           /\ UNCHANGED <<otherThanPointer, dataVars, pageVars>>
    \/ \E pos \in EventPositions :
           /\ onMouseUp(MouseAt(pos))
           /\ inputKinds' = inputKinds \cup {"mouse"}
           /\ UNCHANGED <<otherThanPointer, currentPageIndex>>
    \/ \E pos \in EventPositions :
           /\ onMouseLeave(MouseAt(pos))
           /\ inputKinds' = inputKinds \cup {"mouse"}
           /\ UNCHANGED <<otherThanPointer, currentPageIndex>>
    \/ \E pos \in EventPositions :
           /\ Len(boundingBoxes) < MaxDrawnBoxes
           /\ onTouchStart(TouchAt(pos))
           /\ inputKinds' = {"touch"}
           /\ UNCHANGED <<otherThanPointer, dataVars, pageVars>>
    \/ \E pos \in EventPositions :
           /\ onTouchMove(TouchAt(pos))
           /\ inputKinds' = inputKinds \cup {"touch"}
           /\ UNCHANGED <<otherThanPointer, dataVars, pageVars>>
    \/ /\ onTouchEnd(TouchLifted)
       /\ inputKinds' = inputKinds \cup {"touch"}
       /\ UNCHANGED <<otherThanPointer, currentPageIndex>>

SpecPointer == GestureInit /\ [][PointerNext]_vars

-----------------------------------------------------------------------------
(* Submitting and enhancing: saveSegmentations, handleEnhance,
   handleSelectOriginal and handleSelectEnhanced of page.tsx *)

MaxPosts == 2

MaxEnhanceRequests == 2

MaxPatches == 1

\* seq without its i-th element
RemoveAt(seq, i) == [k \in 1..(Len(seq) - 1) |-> IF k < i THEN seq[k] ELSE seq[k + 1]]

\* One entry of apiSegmentations: enhanced_s3_path: box.enhancedS3Path || null,
\* use_enhanced: box.useEnhanced || false
ApiEntry(box) ==
    [pageNumber |-> box.pageNumber, x |-> box.x, y |-> box.y, width |-> box.width,
     height |-> box.height, label |-> box.label,
     enhanced_s3_path |-> IF box.enhancedS3Path \in {Undefined, Null} THEN Null
                          ELSE box.enhancedS3Path,
     use_enhanced |-> IF box.useEnhanced = "true" THEN "true" ELSE "false"]

\* A payload that leaves the last box out
ApiEntriesButLast(boxes) == [i \in 1..(Len(boxes) - 1) |-> ApiEntry(boxes[i])]

\* boundingBoxes.map(box => ({...}))
ApiEntries(boxes) == [i \in 1..Len(boxes) |-> ApiEntry(boxes[i])]

\* saveSegmentations up to its await: with boxes the POST is sent; without, the
\* function runs to its end (isSaving is set and reset in the same tick)
saveSegmentations ==
    /\ IF Len(boundingBoxes) > 0
       THEN /\ isSaving' = TRUE
            /\ posts' = Append(posts, ApiEntries(boundingBoxes))
            /\ route' = route
            /\ lastOp' = [op |-> "saveSegmentations", toast |-> Null]
       ELSE /\ isSaving' = FALSE
            /\ posts' = posts
            /\ route' = "jobs"
            /\ lastOp' = [op |-> "saveSegmentations", toast |-> "No segmentations to save."]
    /\ UNCHANGED <<dataVars, enhanceVars>>

\* A submit whose router.push follows the try block instead of closing it
saveSegmentationsResolveLeaves(i, ok) ==
    /\ i \in 1..Len(posts)
    /\ posts' = RemoveAt(posts, i)
    /\ isSaving' = FALSE
    /\ route' = "jobs"
    /\ lastOp' = [op |-> "saveSegmentationsResolve", body |-> posts[i],
                  toast |-> IF ok THEN "Segmentations saved successfully."
                            ELSE "Error saving segmentations"]
    /\ UNCHANGED <<dataVars, enhanceVars>>

\* saveSegmentations after its await, for the i-th outstanding POST
saveSegmentationsResolve(i, ok) ==
    /\ i \in 1..Len(posts)
    /\ posts' = RemoveAt(posts, i)
    /\ isSaving' = FALSE
    /\ route' = IF ok THEN "jobs" ELSE route
    /\ lastOp' = [op |-> "saveSegmentationsResolve", body |-> posts[i],
                  toast |-> IF ok THEN "Segmentations saved successfully."
                            ELSE "Error saving segmentations"]
    /\ UNCHANGED <<dataVars, enhanceVars>>

\* A submit button that is never disabled
SubmitAlwaysEnabled == TRUE

\* The submit button of TaskList: disabled={isSaving}
SubmitEnabled == ~isSaving

\* handleEnhance up to its await
handleEnhance(label) ==
    /\ IF \E i \in 1..Len(boundingBoxes) : boundingBoxes[i].label = label
       THEN /\ enhancingLabel' = label
            /\ enhanceModalOpen' = TRUE
            /\ enhanceRequests' =
                   Append([k \in 1..Len(enhanceRequests) |->
                              [enhanceRequests[k] EXCEPT !.superseded = TRUE]],
                          [label |-> label, superseded |-> FALSE])
            /\ lastOp' = [op |-> "handleEnhance", label |-> label, toast |-> Null]
       ELSE /\ enhancingLabel' = Null
            /\ enhanceModalOpen' = FALSE
            /\ enhanceRequests' = enhanceRequests
            /\ lastOp' = [op |-> "handleEnhance", label |-> label,
                          toast |-> "Bounding box not found for this label"]
    /\ enhanceResult' = NoResult
    /\ UNCHANGED <<dataVars, saveVars, patches>>

\* An enhancement response that records the enhanced image on the boxes at once
handleEnhanceResolveApplies(i, ok, segmentationId) ==
    /\ i \in 1..Len(enhanceRequests)
    /\ enhanceRequests' = RemoveAt(enhanceRequests, i)
    /\ enhancingLabel' = Null
    /\ enhanceResult' =
           IF ok THEN [label |-> enhanceRequests[i].label,
                       enhancedS3Path |-> "enhanced.png",
                       segmentationId |-> segmentationId]
           ELSE enhanceResult
    /\ boundingBoxes' =
           [k \in 1..Len(boundingBoxes) |->
               IF ok /\ boundingBoxes[k].label = enhanceRequests[i].label
               THEN Spread(boundingBoxes[k], [useEnhanced |-> "true"])
               ELSE boundingBoxes[k]]
    /\ lastOp' = [op |-> "handleEnhanceResolve", label |-> enhanceRequests[i].label,
                  ok |-> ok, superseded |-> enhanceRequests[i].superseded]
    /\ UNCHANGED <<pageImages, segmentationTasks, completedTasks, loading, error,
                   fetching, saveVars, enhanceModalOpen, patches>>

\* handleEnhance after its await, for the i-th outstanding request (superseded
\* when handleEnhance has been called again since it was sent)
handleEnhanceResolve(i, ok, segmentationId) ==
    /\ i \in 1..Len(enhanceRequests)
    /\ enhanceRequests' = RemoveAt(enhanceRequests, i)
    /\ enhancingLabel' = Null
    /\ enhanceResult' =
           IF ok THEN [label |-> enhanceRequests[i].label,
                       enhancedS3Path |-> "enhanced.png",
                       segmentationId |-> segmentationId]
           ELSE enhanceResult
    /\ lastOp' = [op |-> "handleEnhanceResolve", label |-> enhanceRequests[i].label,
                  ok |-> ok, superseded |-> enhanceRequests[i].superseded]
    /\ UNCHANGED <<dataVars, saveVars, enhanceModalOpen, patches>>

\* onClose of the modal: Escape, the backdrop or Cancel
closeEnhanceModal ==
    /\ enhanceModalOpen
    /\ enhanceModalOpen' = FALSE
    /\ enhanceResult' = NoResult
    /\ lastOp' = [op |-> "closeEnhanceModal"]
    /\ UNCHANGED <<dataVars, saveVars, enhancingLabel, enhanceRequests, patches>>

\* The tail of handleSelectOriginal and handleSelectEnhanced
SelectDone(label, path, use, ok) ==
    /\ IF ok
       THEN updateBoundingBox(label, [enhancedS3Path |-> path, useEnhanced |-> use])
       ELSE /\ lastOp' = [op |-> "handleSelect", toast |-> "Failed to update preference"]
            /\ UNCHANGED dataVars
    /\ enhanceModalOpen' = FALSE
    /\ enhanceResult' = NoResult

\* handleSelectOriginal (use = "false") and handleSelectEnhanced (use = "true")
\* up to the await: without a segmentationId they run to their end
handleSelect(use) ==
    /\ enhanceModalOpen
    /\ enhanceResult # NoResult
    /\ IF enhanceResult.segmentationId # Null
       THEN /\ Len(patches) < MaxPatches
            /\ patches' = Append(patches, [label |-> enhanceResult.label,
                                           enhancedS3Path |-> enhanceResult.enhancedS3Path,
                                           useEnhanced |-> use])
            /\ lastOp' = [op |-> "handleSelect", toast |-> Null]
            /\ UNCHANGED <<dataVars, enhanceModalOpen, enhanceResult>>
       ELSE /\ SelectDone(enhanceResult.label, enhanceResult.enhancedS3Path, use, TRUE)
            /\ patches' = patches
    /\ UNCHANGED <<saveVars, enhancingLabel, enhanceRequests>>

\* handleSelectOriginal and handleSelectEnhanced after the await
handleSelectResolve(i, ok) ==
    /\ i \in 1..Len(patches)
    /\ patches' = RemoveAt(patches, i)
    /\ SelectDone(patches[i].label, patches[i].enhancedS3Path, patches[i].useEnhanced, ok)
    /\ UNCHANGED <<saveVars, enhancingLabel, enhanceRequests>>

otherThanSession == <<statusVars, loaderVars, drawVars, pageVars, preloadVars, inputKinds,
                      jobStatus, abandoned,
                      otherPagesVars>>

\* Boxes are drawn and removed, and the collection is submitted
SubmitNext ==
    \/ \E box \in InputBoxes :
           /\ route = "segment"
           /\ Len(boundingBoxes) < MaxBoxes
           /\ addBoundingBox(box)
           /\ lastOp' = [op |-> "addBoundingBox", box |-> box]
           /\ UNCHANGED <<otherThanSession, saveVars, enhanceVars>>
    \/ \E i \in 0..(MaxBoxes - 1) :
           /\ route = "segment"
           /\ removeBoundingBoxByIndex(i)
           /\ UNCHANGED <<otherThanSession, saveVars, enhanceVars>>
    \/ \E l \in Labels, u \in InputUpdates :
           /\ route = "segment"
           /\ updateBoundingBox(l, u)
           /\ UNCHANGED <<otherThanSession, saveVars, enhanceVars>>
    \/ /\ route = "segment"
       /\ SubmitEnabled
       /\ Len(posts) < MaxPosts
       /\ saveSegmentations
       /\ UNCHANGED otherThanSession
    \/ \E i \in 1..MaxPosts, ok \in BOOLEAN :
           /\ saveSegmentationsResolve(i, ok)
           /\ UNCHANGED otherThanSession

\* The enhancement of the drawn boxes is requested and chosen
EnhanceNext ==
    \/ \E label \in Labels :
           /\ Len(enhanceRequests) < MaxEnhanceRequests
           /\ handleEnhance(label)
           /\ UNCHANGED otherThanSession
    \/ \E i \in 1..MaxEnhanceRequests, ok \in BOOLEAN, id \in {Null, "seg-7"} :
           /\ handleEnhanceResolve(i, ok, id)
           /\ UNCHANGED otherThanSession
    \/ /\ closeEnhanceModal
       /\ UNCHANGED otherThanSession
    \/ \E use \in {"false", "true"} :
           /\ handleSelect(use)
           /\ UNCHANGED otherThanSession
    \/ \E i \in 1..MaxPatches, ok \in BOOLEAN :
           /\ handleSelectResolve(i, ok)
           /\ UNCHANGED otherThanSession

\* The workspace with its data loaded and the boxes drawn so far
SessionSpecInit(boxes) ==
    /\ job = [status |-> "awaiting_segmentation", initial_tex_s3_path |-> "tex",
              final_pdf_s3_path |-> Null, error_message |-> Null]
    /\ buttons = getButtonVisibility(job)
    /\ pageImages = ServerPages
    /\ segmentationTasks = ServerTasks
    /\ boundingBoxes = boxes
    /\ completedTasks = LabelSet(boxes)
    /\ loading = FALSE
    /\ error = Null
    /\ fetching = 0
    /\ LoaderUnmounted /\ DrawInit /\ PageInit /\ SessionInit
    /\ lastOp = [op |-> "init"]

SpecSubmit == SessionSpecInit(<<>>) /\ [][SubmitNext]_vars

\* One, two or three boxes drawn, for one or both labels
DrawnBoxLists ==
    {<<NewBoundingBox(Rect1, "DIAGRAM-1", 1)>>,
     <<NewBoundingBox(Rect1, "DIAGRAM-1", 1), NewBoundingBox(Rect1, "DIAGRAM-2", 1)>>,
     <<NewBoundingBox(Rect1, "DIAGRAM-1", 1), NewBoundingBox(Rect1, "DIAGRAM-2", 1),
       NewBoundingBox(Rect1, "DIAGRAM-1", 2)>>}

EnhanceInit == \E boxes \in DrawnBoxLists : SessionSpecInit(boxes)

SpecEnhance == EnhanceInit /\ [][EnhanceNext]_vars

-----------------------------------------------------------------------------
(* Loading the page images: the page effect and the prefetch effect of
   useImageLoader, preloadImage, and preloadJobImages of lib/utils *)

MaxImageLoads == 2

MaxPreloadCalls == 2

JobId == "job-1"

UrlOf(idx) == pageImages[idx + 1].image_url

\* The urls for which preloadImage creates an Image, called in turn for the pages
\* [currentPageIndex - 1, currentPageIndex + 1, currentPageIndex + 2] not prefetched yet
PrefetchIndicesAgain(idx) ==
    {i \in {idx - 1, idx + 1, idx + 2} : i >= 0 /\ i < Len(pageImages)}

PrefetchIndices(idx) ==
    {i \in {idx - 1, idx + 1, idx + 2} : i >= 0 /\ i < Len(pageImages) /\ i \notin prefetched}

\* loadsStarted after an Image was given each url of urls as its src
Started(loads, urls) == [u \in DOMAIN loads |-> IF u \in urls THEN loads[u] + 1 ELSE loads[u]]

\* The page effect and the prefetch effect for page idx, with the resize effect
\* the change of imageObj triggers.  cache is imageCache as the page effect
\* leaves it.
RunLoaderEffects(idx, hit, fromPreload, cache) ==
    LET url == UrlOf(idx)
        img == IF hit \/ fromPreload THEN ImageOf(url) ELSE NoImage
        sizes == calculateSizes(containerSize, img)
        toPrefetch == {UrlOf(i) : i \in PrefetchIndices(idx)}
        fromGlobal == {u \in toPrefetch : u \notin cache /\ u \in preloadCache}
        created == {u \in toPrefetch : u \notin cache /\ u \notin preloadCache}
        pageLoad == IF hit \/ fromPreload THEN {} ELSE {url}
    IN  /\ imageObj' = img
        /\ containerSize' = sizes.containerSize
        /\ renderedImageSize' = sizes.renderedImageSize
        /\ imageScale' = sizes.imageScale
        /\ imageCache' = cache \cup fromGlobal
        /\ inflight' = inflight \cup pageLoad
        /\ prefetching' = prefetching \cup created
        /\ prefetched' = prefetched \cup PrefetchIndices(idx)
        /\ loadsStarted' = Started(Started(loadsStarted, pageLoad), created)
        /\ lastOp' = [op |-> "setCurrentPageIndex", index |-> idx,
                      prefetch |-> PrefetchIndices(idx),
                      started |-> pageLoad \cup created,
                      busy |-> imageCache \cup preloadCache \cup inflight
                               \cup prefetching \cup preloading]

\* goToNextPage and goToPrevPage: setCurrentPageIndex(idx) and the effects of
\* the render that follows
setCurrentPageIndex(idx) ==
    /\ idx >= 0 /\ idx < Len(pageImages)
    /\ idx \in {currentPageIndex - 1, currentPageIndex + 1}
    /\ currentPageIndex' = idx
    /\ RunLoaderEffects(idx, UrlOf(idx) \in imageCache,
                        UrlOf(idx) \notin imageCache /\ UrlOf(idx) \in preloadCache,
                        IF UrlOf(idx) \in preloadCache THEN imageCache \cup {UrlOf(idx)}
                        ELSE imageCache)
    /\ UNCHANGED <<preloading, preloadCache, preloadedJobs, preloadsPending,
                   currentTaskIndex>>

\* An onerror that leaves the loader as it was
imageOnerrorIgnored(url) ==
    /\ url \in inflight
    /\ inflight' = inflight \ {url}
    /\ lastOp' = [op |-> "imageOnerror", url |-> url, thrown |-> FALSE]
    /\ UNCHANGED <<containerSize, imageObj, renderedImageSize, imageScale, imageCache>>

\* img.onerror of the Image the page effect created for url: console.error,
\* setImageObj(null), calculateSizes(containerRef.current, null)
imageOnerror(url) ==
    /\ url \in inflight
    /\ inflight' = inflight \ {url}
    /\ imageObj' = NoImage
    /\ containerSize' = calculateSizes(containerSize, NoImage).containerSize
    /\ renderedImageSize' = calculateSizes(containerSize, NoImage).renderedImageSize
    /\ imageScale' = calculateSizes(containerSize, NoImage).imageScale
    /\ imageCache' = imageCache
    /\ lastOp' = [op |-> "imageOnerror", url |-> url, thrown |-> FALSE]

\* The Image preloadImage created for url has loaded (ok) or failed
prefetchSettled(url, ok) ==
    /\ url \in prefetching
    /\ prefetching' = prefetching \ {url}
    /\ imageCache' = IF ok THEN imageCache \cup {url} ELSE imageCache
    /\ lastOp' = [op |-> "prefetchSettled", url |-> url, ok |-> ok]
    /\ UNCHANGED <<containerSize, imageObj, renderedImageSize, imageScale, inflight,
                   loadsStarted, prefetched, preloading, preloadCache, preloadedJobs,
                   preloadsPending>>

\* preloadJobImages up to its await
preloadJobImages ==
    /\ JobId \notin preloadedJobs
    /\ preloadsPending' = preloadsPending + 1
    /\ lastOp' = [op |-> "preloadJobImages"]
    /\ UNCHANGED <<loaderVars, loadsStarted, prefetching, prefetched, preloading,
                   preloadCache, preloadedJobs>>

\* preloadJobImages after its await: an Image for every page url not in the
\* module's cache
preloadJobImagesResolve(ok) ==
    LET created == IF ok THEN {ServerPages[i].image_url : i \in 1..Len(ServerPages)}
                                 \ preloadCache
                   ELSE {}
    IN  /\ preloadsPending > 0
        /\ preloadsPending' = preloadsPending - 1
        /\ preloading' = preloading \cup created
        /\ loadsStarted' = Started(loadsStarted, created)
        /\ preloadedJobs' = IF ok THEN preloadedJobs \cup {JobId} ELSE preloadedJobs
        /\ lastOp' = [op |-> "preloadJobImagesResolve", started |-> created,
                      busy |-> imageCache \cup preloadCache \cup inflight
                               \cup prefetching \cup preloading]
        /\ UNCHANGED <<loaderVars, prefetching, prefetched, preloadCache>>

\* The Image preloadJobImages created for url has loaded (ok) or failed
preloadSettled(url, ok) ==
    /\ url \in preloading
    /\ preloading' = preloading \ {url}
    /\ preloadCache' = IF ok THEN preloadCache \cup {url} ELSE preloadCache
    /\ lastOp' = [op |-> "preloadSettled", url |-> url, ok |-> ok]
    /\ UNCHANGED <<loaderVars, loadsStarted, prefetching, prefetched, preloadedJobs,
                   preloadsPending>>

otherThanLoader == <<statusVars, dataVars, drawVars, saveVars, enhanceVars, inputKinds,
                     jobStatus, abandoned,
                     otherPagesVars>>

LoaderNext ==
    \/ \E idx \in 0..(Len(ServerPages) - 1) :
           /\ \A u \in DOMAIN loadsStarted : loadsStarted[u] < MaxImageLoads
           /\ setCurrentPageIndex(idx)
           /\ UNCHANGED otherThanLoader
    \/ \E url \in ImageUrls :
           /\ imageOnload(url)
           /\ UNCHANGED <<otherThanLoader, pageVars, preloadVars>>
    \/ \E url \in ImageUrls :
           /\ imageOnerror(url)
           /\ UNCHANGED <<otherThanLoader, pageVars, preloadVars>>
    \/ \E url \in ImageUrls, ok \in BOOLEAN :
           /\ prefetchSettled(url, ok)
           /\ UNCHANGED <<otherThanLoader, pageVars>>
    \/ /\ preloadsPending < MaxPreloadCalls
       /\ \A u \in DOMAIN loadsStarted : loadsStarted[u] < MaxImageLoads
       /\ preloadJobImages
       /\ UNCHANGED <<otherThanLoader, pageVars>>
    \/ \E ok \in BOOLEAN :
           /\ preloadJobImagesResolve(ok)
           /\ UNCHANGED <<otherThanLoader, pageVars>>
    \/ \E url \in ImageUrls, ok \in BOOLEAN :
           /\ preloadSettled(url, ok)
           /\ UNCHANGED <<otherThanLoader, pageVars>>
    \/ \E client \in ContainerSizes :
           /\ handleResize(client)
           /\ UNCHANGED <<otherThanLoader, pageVars, preloadVars>>

\* The workspace after its data arrived: the effects have run for page 0, with
\* nothing cached and no job preload called yet
LoaderInit ==
    /\ job = [status |-> "awaiting_segmentation", initial_tex_s3_path |-> "tex",
              final_pdf_s3_path |-> Null, error_message |-> Null]
    /\ buttons = getButtonVisibility(job)
    /\ pageImages = ServerPages
    /\ segmentationTasks = ServerTasks
    /\ boundingBoxes \in {<<>>} \cup DrawnBoxLists
    /\ completedTasks = LabelSet(boundingBoxes)
    /\ loading = FALSE
    /\ error = Null
    /\ fetching = 0
    /\ containerSize \in ContainerSizes
    /\ imageObj = NoImage
    /\ renderedImageSize = ZeroSize
    /\ imageScale = UnitScale
    /\ imageCache = {}
    /\ inflight = {"page-1.png"}
    /\ DrawInit /\ PageInit
    /\ isSaving = FALSE /\ posts = <<>> /\ route = "segment"
    /\ enhancingLabel = Null /\ enhanceModalOpen = FALSE /\ enhanceResult = NoResult
    /\ enhanceRequests = <<>> /\ patches = <<>>
    /\ loadsStarted = [url \in ImageUrls |->
                          IF url \in {"page-1.png", "page-2.png"} THEN 1 ELSE 0]
    /\ prefetching = {"page-2.png"}
    /\ prefetched = {1}
    /\ preloading = {}
    /\ preloadCache = {}
    /\ preloadedJobs = {}
    /\ preloadsPending = 0
    /\ inputKinds = {}
    /\ jobStatus = "awaiting_segmentation"
    /\ abandoned = 0
    /\ OtherPagesInit
    /\ lastOp = [op |-> "init"]

SpecLoader == LoaderInit /\ [][LoaderNext]_vars

-----------------------------------------------------------------------------
(* The prefetch window on a job of four pages *)

FourPages ==
    <<[page_number |-> 1, image_url |-> "page-1.png"],
      [page_number |-> 2, image_url |-> "page-2.png"],
      [page_number |-> 3, image_url |-> "page-3.png"],
      [page_number |-> 4, image_url |-> "page-4.png"]>>

\* The workspace after the four pages arrived: the page effect has created the
\* Image of page 0 and the prefetch effect has called preloadImage for 1 and 2
PrefetchInit ==
    /\ job = [status |-> "awaiting_segmentation", initial_tex_s3_path |-> "tex",
              final_pdf_s3_path |-> Null, error_message |-> Null]
    /\ buttons = getButtonVisibility(job)
    /\ pageImages = FourPages
    /\ segmentationTasks = ServerTasks
    /\ boundingBoxes = <<>>
    /\ completedTasks = {}
    /\ loading = FALSE
    /\ error = Null
    /\ fetching = 0
    /\ containerSize = CornerContainer
    /\ imageObj = NoImage
    /\ renderedImageSize = ZeroSize
    /\ imageScale = UnitScale
    /\ imageCache = {}
    /\ inflight = {"page-1.png"}
    /\ DrawInit /\ PageInit
    /\ isSaving = FALSE /\ posts = <<>> /\ route = "segment"
    /\ enhancingLabel = Null /\ enhanceModalOpen = FALSE /\ enhanceResult = NoResult
    /\ enhanceRequests = <<>> /\ patches = <<>>
    /\ loadsStarted = [url \in ImageUrls |->
                          IF url \in {"page-1.png", "page-2.png", "page-3.png"}
                          THEN 1 ELSE 0]
    /\ prefetching = {"page-2.png", "page-3.png"}
    /\ prefetched = {1, 2}
    /\ preloading = {}
    /\ preloadCache = {}
    /\ preloadedJobs = {}
    /\ preloadsPending = 0
    /\ inputKinds = {}
    /\ jobStatus = "awaiting_segmentation"
    /\ abandoned = 0
    /\ OtherPagesInit
    /\ lastOp = [op |-> "init"]

PrefetchNext ==
    \/ \E idx \in 0..(Len(FourPages) - 1) :
           /\ \A u \in DOMAIN loadsStarted : loadsStarted[u] < MaxImageLoads
           /\ setCurrentPageIndex(idx)
           /\ UNCHANGED otherThanLoader
    \/ \E url \in ImageUrls :
           /\ imageOnload(url)
           /\ UNCHANGED <<otherThanLoader, pageVars, preloadVars>>
    \/ \E url \in ImageUrls :
           /\ imageOnerror(url)
           /\ UNCHANGED <<otherThanLoader, pageVars, preloadVars>>
    \/ \E url \in ImageUrls, ok \in BOOLEAN :
           /\ prefetchSettled(url, ok)
           /\ UNCHANGED <<otherThanLoader, pageVars>>

SpecPrefetch == PrefetchInit /\ [][PrefetchNext]_vars

-----------------------------------------------------------------------------
(* Gestures while the task list and the page buttons stay live: selectTask,
   goToNextPage and goToPrevPage are not disabled while isDrawing *)

\* selectTask(index): onSelectTask of TaskList
selectTask(index) ==
    /\ currentTaskIndex' = index
    /\ lastOp' = [op |-> "selectTask", index |-> index]

\* left of the first page's image, inside both images, and below them
RetargetPositions == {[x |-> 0, y |-> 6], [x |-> 350, y |-> 6], [x |-> 621, y |-> 610]}

otherThanRetarget == <<statusVars, saveVars, enhanceVars, jobStatus, abandoned,
                       otherPagesVars>>

RetargetNext ==
    \/ \E idx \in 0..(Len(ServerPages) - 1) :
           /\ \A u \in DOMAIN loadsStarted : loadsStarted[u] < MaxImageLoads
           /\ setCurrentPageIndex(idx)
           /\ UNCHANGED otherThanLoader
    \/ \E url \in ImageUrls :
           /\ imageOnload(url)
           /\ UNCHANGED <<otherThanLoader, pageVars, preloadVars>>
    \/ \E url \in ImageUrls, ok \in BOOLEAN :
           /\ prefetchSettled(url, ok)
           /\ UNCHANGED <<otherThanLoader, pageVars>>
    \/ \E index \in 0..(Len(ServerTasks) - 1) :
           /\ selectTask(index)
           /\ UNCHANGED <<otherThanRetarget, dataVars, loaderVars, drawVars, preloadVars,
                          inputKinds, currentPageIndex>>
    \/ \E pos \in RetargetPositions :
           /\ Len(boundingBoxes) < MaxDrawnBoxes
           /\ handleDrawStart(pos)
           /\ UNCHANGED <<sessionVars, statusVars, dataVars, loaderVars, pageVars>>
    \/ \E pos \in RetargetPositions :
           /\ handleDrawMove(pos)
           /\ UNCHANGED <<sessionVars, statusVars, dataVars, loaderVars, pageVars>>
    \/ /\ handleDrawEnd
       /\ UNCHANGED <<sessionVars, statusVars, loaderVars, currentPageIndex>>
    \/ \E client \in ContainerSizes :
           /\ handleResize(client)
           /\ UNCHANGED <<otherThanLoader, pageVars, preloadVars>>

RetargetInit == LoaderInit /\ boundingBoxes = <<>> /\ containerSize = CornerContainer

SpecRetarget == RetargetInit /\ [][RetargetNext]_vars

-----------------------------------------------------------------------------
(* Several boxes drawn in a row, with the task list live *)

AdvanceNext ==
    \/ \E url \in ImageUrls :
           /\ imageOnload(url)
           /\ UNCHANGED <<otherThanLoader, pageVars, preloadVars>>
    \/ \E index \in 0..(Len(ServerTasks) - 1) :
           /\ selectTask(index)
           /\ UNCHANGED <<otherThanRetarget, dataVars, loaderVars, drawVars, preloadVars,
                          inputKinds, currentPageIndex>>
    \/ \E pos \in RetargetPositions :
           /\ Len(boundingBoxes) <= MaxDrawnBoxes
           /\ handleDrawStart(pos)
           /\ UNCHANGED <<sessionVars, statusVars, dataVars, loaderVars, pageVars>>
    \/ \E pos \in RetargetPositions :
           /\ handleDrawMove(pos)
           /\ UNCHANGED <<sessionVars, statusVars, dataVars, loaderVars, pageVars>>
    \/ /\ handleDrawEnd
       /\ UNCHANGED <<sessionVars, statusVars, loaderVars, currentPageIndex>>

SpecAdvance == RetargetInit /\ [][AdvanceNext]_vars

-----------------------------------------------------------------------------
(* Gestures across resizes of the container and changes of page, with one
   task selected throughout *)

GeometryNext ==
    \/ \E idx \in 0..(Len(ServerPages) - 1) :
           /\ \A u \in DOMAIN loadsStarted : loadsStarted[u] < MaxImageLoads
           /\ setCurrentPageIndex(idx)
           /\ UNCHANGED otherThanLoader
    \/ \E url \in ImageUrls :
           /\ imageOnload(url)
           /\ UNCHANGED <<otherThanLoader, pageVars, preloadVars>>
    \/ \E client \in ContainerSizes :
           /\ handleResize(client)
           /\ UNCHANGED <<otherThanLoader, pageVars, preloadVars>>
    \/ \E pos \in RetargetPositions :
           /\ Len(boundingBoxes) < MaxDrawnBoxes
           /\ handleDrawStart(pos)
           /\ UNCHANGED <<sessionVars, statusVars, dataVars, loaderVars, pageVars>>
    \/ \E pos \in RetargetPositions :
           /\ handleDrawMove(pos)
           /\ UNCHANGED <<sessionVars, statusVars, dataVars, loaderVars, pageVars>>
    \/ /\ handleDrawEnd
       /\ UNCHANGED <<sessionVars, statusVars, loaderVars, currentPageIndex>>

SpecGeometry == RetargetInit /\ [][GeometryNext]_vars

-----------------------------------------------------------------------------
(* The page buttons and the removal of a box rendered on the current page *)

\* A next-page button that wraps around to the first page
goToNextPageWraps ==
    IF currentPageIndex < Len(pageImages) - 1
    THEN setCurrentPageIndex(currentPageIndex + 1)
    ELSE setCurrentPageIndex(0)

goToNextPage ==
    IF currentPageIndex < Len(pageImages) - 1
    THEN setCurrentPageIndex(currentPageIndex + 1)
    ELSE /\ lastOp' = [op |-> "goToNextPage"]
         /\ UNCHANGED <<loaderVars, preloadVars, pageVars>>

goToPrevPage ==
    IF currentPageIndex > 0
    THEN setCurrentPageIndex(currentPageIndex - 1)
    ELSE /\ lastOp' = [op |-> "goToPrevPage"]
         /\ UNCHANGED <<loaderVars, preloadVars, pageVars>>

\* boundingBoxes.filter(box => box.pageNumber === currentPage?.page_number)
currentBoxesToRender ==
    IF currentPageIndex >= 0 /\ currentPageIndex < Len(pageImages)
    THEN SelectSeq(boundingBoxes, LAMBDA box : box.pageNumber = currentPage.page_number)
    ELSE <<>>

\* a === b on numbers
StrictEquals(a, b) == ~IsNaN(a) /\ ~IsNaN(b) /\ a = b

\* The predicate handleRemoveBoxOnPage gives to findIndex
SameLabelPageAndCoordinates(b, boxToRemove) ==
    /\ b.label = boxToRemove.label
    /\ b.pageNumber = boxToRemove.pageNumber
    /\ StrictEquals(b.x, boxToRemove.x)
    /\ StrictEquals(b.y, boxToRemove.y)
    /\ StrictEquals(b.width, boxToRemove.width)
    /\ StrictEquals(b.height, boxToRemove.height)

\* boundingBoxes.findIndex(b => ...): the index of the first match, or -1
FindIndex(boxes, boxToRemove) ==
    LET matches == {k \in 1..Len(boxes) : SameLabelPageAndCoordinates(boxes[k], boxToRemove)}
    IN  IF matches = {} THEN 0 - 1
        ELSE (CHOOSE k \in matches : \A j \in matches : k <= j) - 1

handleRemoveBoxOnPage(indexOnPage) ==
    IF indexOnPage < 0 \/ indexOnPage >= Len(currentBoxesToRender)
    THEN /\ lastOp' = [op |-> "handleRemoveBoxOnPage", toast |-> Null]
         /\ UNCHANGED dataVars
    ELSE IF FindIndex(boundingBoxes, currentBoxesToRender[indexOnPage + 1]) # 0 - 1
         THEN removeBoundingBoxByIndex(
                  FindIndex(boundingBoxes, currentBoxesToRender[indexOnPage + 1]))
         ELSE /\ lastOp' = [op |-> "handleRemoveBoxOnPage", toast |-> "Error removing box."]
              /\ UNCHANGED dataVars

\* Boxes are drawn on the two pages, enhanced, and removed by a click on them
RemoveNext ==
    \/ /\ \A u \in DOMAIN loadsStarted : loadsStarted[u] < MaxImageLoads
       /\ goToNextPage
       /\ UNCHANGED otherThanLoader
    \/ /\ \A u \in DOMAIN loadsStarted : loadsStarted[u] < MaxImageLoads
       /\ goToPrevPage
       /\ UNCHANGED otherThanLoader
    \/ \E url \in ImageUrls :
           /\ imageOnload(url)
           /\ UNCHANGED <<otherThanLoader, pageVars, preloadVars>>
    \/ \E box \in InputBoxes :
           /\ Len(boundingBoxes) <= MaxBoxes
           /\ addBoundingBox(box)
           /\ lastOp' = [op |-> "addBoundingBox", box |-> box]
           /\ UNCHANGED otherThanData
    \/ \E l \in Labels, u \in InputUpdates :
           /\ updateBoundingBox(l, u)
           /\ UNCHANGED otherThanData
    \/ \E i \in 0..MaxBoxes :
           /\ handleRemoveBoxOnPage(i)
           /\ UNCHANGED otherThanData

SpecRemove == RetargetInit /\ [][RemoveNext]_vars

\* The page buttons on a job of two and on a job of four pages
PagingInit == RetargetInit \/ PrefetchInit

PagingNext ==
    \/ /\ \A u \in DOMAIN loadsStarted : loadsStarted[u] < MaxImageLoads
       /\ goToNextPage
       /\ UNCHANGED otherThanLoader
    \/ /\ \A u \in DOMAIN loadsStarted : loadsStarted[u] < MaxImageLoads
       /\ goToPrevPage
       /\ UNCHANGED otherThanLoader
    \/ \E url \in ImageUrls :
           /\ imageOnload(url)
           /\ UNCHANGED <<otherThanLoader, pageVars, preloadVars>>
    \/ \E url \in ImageUrls, ok \in BOOLEAN :
           /\ prefetchSettled(url, ok)
           /\ UNCHANGED <<otherThanLoader, pageVars>>

SpecPaging == PagingInit /\ [][PagingNext]_vars

-----------------------------------------------------------------------------
(* Entering and leaving the workspace: the Segment link of the jobs table,
   the early returns of SegmentationPage, and the job's status, which the
   pipeline and the other clients change while this client looks at its copy *)

\* the backend moves the job to another status (a worker, or a submit from
\* another client)
pipelineAdvances(status) ==
    /\ jobStatus' = status
    /\ lastOp' = [op |-> "pipelineAdvances", status |-> status]

\* the jobs page polls and renders the row from the status it was sent
fetchJobs ==
    /\ route = "jobs"
    /\ job' = [job EXCEPT !.status = jobStatus]
    /\ buttons' = getButtonVisibility(job')
    /\ lastOp' = [op |-> "fetchJobs"]

\* <Link href={`/jobs/${job.id}/segment`}> under {canSegment && ...}:
\* SegmentationPage mounts with fresh state and its hook calls fetchData
openSegmentation ==
    /\ route = "jobs"
    /\ buttons.canSegment
    /\ route' = "segment"
    /\ pageImages' = <<>>
    /\ segmentationTasks' = <<>>
    /\ boundingBoxes' = <<>>
    /\ completedTasks' = {}
    /\ loading' = TRUE
    /\ error' = Null
    /\ fetching' = fetching + 1
    /\ isSaving' = FALSE
    /\ lastOp' = [op |-> "openSegmentation"]

\* SegmentationPage renders the canvas, the task list and the submit button
\* only past its early returns for dataLoading and dataError
WorkspaceRendered == route = "segment" /\ ~loading /\ error = Null

WorkspaceStatuses ==
    {"awaiting_segmentation", "segmentation_complete", "compilation_pending", "failed"}

otherThanWorkspace == <<loaderVars, drawVars, pageVars, enhanceVars, preloadVars, inputKinds,
                        abandoned,
                        otherPagesVars>>

WorkspaceNext ==
    \/ \E status \in WorkspaceStatuses :
           /\ pipelineAdvances(status)
           /\ UNCHANGED <<otherThanWorkspace, statusVars, dataVars, saveVars>>
    \/ /\ fetchJobs
       /\ UNCHANGED <<otherThanWorkspace, dataVars, saveVars, jobStatus>>
    \/ /\ openSegmentation
       /\ UNCHANGED <<otherThanWorkspace, statusVars, posts, jobStatus>>
    \/ \E o \in FetchOutcomes({<<>>}) :
           /\ route = "segment"
           /\ fetchDataResolve(o[1], o[2], o[3], o[4])
           /\ UNCHANGED <<otherThanWorkspace, statusVars, saveVars, jobStatus>>
    \/ \E box \in InputBoxes :
           /\ WorkspaceRendered
           /\ Len(boundingBoxes) < MaxBoxes
           /\ addBoundingBox(box)
           /\ lastOp' = [op |-> "addBoundingBox", box |-> box]
           /\ UNCHANGED <<otherThanSession, saveVars, enhanceVars>>
    \/ \E i \in 0..(MaxBoxes - 1) :
           /\ WorkspaceRendered
           /\ removeBoundingBoxByIndex(i)
           /\ UNCHANGED <<otherThanSession, saveVars, enhanceVars>>
    \/ /\ WorkspaceRendered
       /\ SubmitEnabled
       /\ Len(posts) < MaxPosts
       /\ saveSegmentations
       /\ UNCHANGED otherThanSession
    \/ \E i \in 1..MaxPosts, ok \in BOOLEAN :
           /\ saveSegmentationsResolve(i, ok)
           /\ UNCHANGED otherThanSession

WorkspaceInit == CornerInit

SpecWorkspace == WorkspaceInit /\ [][WorkspaceNext]_vars

-----------------------------------------------------------------------------
(* useSegmentationData when its jobId changes or its page is left while a
   fetchData call awaits its responses *)

\* jobId changes under the mounted hook: fetchData is a new callback, the
\* effect calls it, and the calls still awaiting were started for the old job
switchJob ==
    /\ route = "segment"
    /\ abandoned' = fetching
    /\ fetchData
    /\ UNCHANGED route

\* the page is left: the hook unmounts with its calls still awaiting
leaveWorkspace ==
    /\ route = "segment"
    /\ route' = "jobs"
    /\ abandoned' = fetching
    /\ lastOp' = [op |-> "leaveWorkspace"]
    /\ UNCHANGED dataVars

\* fetchData after its awaits in the mounted hook, for the job shown now (the
\* calls not abandoned) or for a job left since
fetchDataResolveFor(stale, net, pagesRes, tasksRes, segRes) ==
    /\ route = "segment"
    /\ IF stale THEN abandoned > 0 ELSE fetching > abandoned
    /\ abandoned' = IF stale THEN abandoned - 1 ELSE abandoned
    /\ fetchDataResolve(net, pagesRes, tasksRes, segRes)
    /\ UNCHANGED route

\* fetchData after its awaits once the hook has unmounted: the setters of an
\* unmounted component set nothing
fetchDataResolveUnmounted ==
    /\ route = "jobs"
    /\ fetching > 0
    /\ fetching' = fetching - 1
    /\ abandoned' = abandoned - 1
    /\ lastOp' = [op |-> "fetchDataResolveUnmounted"]
    /\ UNCHANGED <<pageImages, segmentationTasks, boundingBoxes, completedTasks, loading,
                   error, route>>

otherThanSwitch == <<statusVars, loaderVars, drawVars, pageVars, enhanceVars, preloadVars,
                     inputKinds, jobStatus, isSaving, posts,
                     otherPagesVars>>

SwitchNext ==
    \/ /\ fetching <= MaxFetches
       /\ switchJob
       /\ UNCHANGED otherThanSwitch
    \/ /\ leaveWorkspace
       /\ UNCHANGED otherThanSwitch
    \/ \E stale \in BOOLEAN, o \in FetchOutcomes(SeqsUpTo(ApiSegmentations, 1)) :
           /\ fetchDataResolveFor(stale, o[1], o[2], o[3], o[4])
           /\ UNCHANGED otherThanSwitch
    \/ /\ fetchDataResolveUnmounted
       /\ UNCHANGED otherThanSwitch
    \/ \E box \in InputBoxes :
           /\ WorkspaceRendered
           /\ Len(boundingBoxes) < MaxBoxes
           /\ addBoundingBox(box)
           /\ lastOp' = [op |-> "addBoundingBox", box |-> box]
           /\ UNCHANGED <<otherThanSwitch, route, abandoned>>

SpecSwitch == DataSpecInit /\ [][SwitchNext]_vars

-----------------------------------------------------------------------------
(* Submits and enhancement requests that fail *)

\* With boxes drawn, the collection is submitted and enhancements are requested
\* while the segmentation page is mounted
FailureNext ==
    \/ /\ route = "segment"
       /\ SubmitEnabled
       /\ Len(posts) < MaxPosts
       /\ saveSegmentations
       /\ UNCHANGED otherThanSession
    \/ \E i \in 1..MaxPosts, ok \in BOOLEAN :
           /\ saveSegmentationsResolve(i, ok)
           /\ UNCHANGED otherThanSession
    \/ \E label \in Labels :
           /\ route = "segment"
           /\ Len(enhanceRequests) < MaxEnhanceRequests
           /\ handleEnhance(label)
           /\ UNCHANGED otherThanSession
    \/ \E i \in 1..MaxEnhanceRequests, ok \in BOOLEAN, id \in {Null, "seg-7"} :
           /\ route = "segment"
           /\ handleEnhanceResolve(i, ok, id)
           /\ UNCHANGED otherThanSession
    \/ /\ route = "segment"
       /\ closeEnhanceModal
       /\ UNCHANGED otherThanSession

SpecFailure == EnhanceInit /\ [][FailureNext]_vars

-----------------------------------------------------------------------------
(* The TeX editor of edit/page.tsx: the debounced preview *)

MaxPreviews == 3

EditContents == {"v0", "v1", "v2"}

\* fetchPreview(content) up to its await, as the callback that closed over
\* lastPreviewContent = seen
fetchPreview(content, seen) ==
    IF content = "" \/ content = seen
    THEN UNCHANGED <<lastPreviewContent, isPreviewLoading, previewError, previewRequests,
                     previewsSent>>
    ELSE /\ isPreviewLoading' = TRUE
         /\ previewError' = Null
         /\ lastPreviewContent' = content
         /\ previewsSent' = previewsSent + 1
         /\ previewRequests' = Append(previewRequests,
                                      [content |-> content, request |-> previewsSent + 1])

\* The effect that fetches the job's TeX once: setTexContent(data) and, when
\* data is not empty, fetchPreview(data)
openEditor(data) ==
    /\ lastOp.op = "init"
    /\ texContent' = data
    /\ fetchPreview(data, lastPreviewContent)
    /\ lastOp' = [op |-> "openEditor", data |-> data]
    /\ UNCHANGED <<previewPdfUrl, debounceTimeout>>

\* onEditorChange: the pending timer is cleared and a new one is set, whose
\* callback calls the fetchPreview of this render
onEditorChange(value) ==
    /\ texContent' = value
    /\ debounceTimeout' = [value |-> value, seen |-> lastPreviewContent]
    /\ lastOp' = [op |-> "onEditorChange", value |-> value]
    /\ UNCHANGED <<lastPreviewContent, previewPdfUrl, isPreviewLoading, previewError,
                   previewRequests, previewsSent>>

\* The callback of the debounce timer, 500 ms after the edit that set it
debounceFires ==
    /\ debounceTimeout # NoTimeout
    /\ fetchPreview(debounceTimeout.value, debounceTimeout.seen)
    /\ debounceTimeout' = NoTimeout
    /\ lastOp' = [op |-> "debounceFires", value |-> debounceTimeout.value]
    /\ UNCHANGED <<texContent, previewPdfUrl>>

\* fetchPreview after its await, for the i-th outstanding request.  The object
\* URL of a response is a new one each time; the cleanup of the effect that
\* depends on previewPdfUrl runs whenever that state changes and clears the
\* timer debounceTimeoutRef holds.
fetchPreviewResolve(i, ok) ==
    /\ i \in 1..Len(previewRequests)
    /\ previewRequests' = RemoveAt(previewRequests, i)
    /\ previewPdfUrl' = IF ok THEN previewRequests[i] ELSE NoPreview
    /\ previewError' = IF ok THEN previewError ELSE "Preview failed"
    /\ isPreviewLoading' = FALSE
    /\ debounceTimeout' = IF previewPdfUrl' # previewPdfUrl THEN NoTimeout
                          ELSE debounceTimeout
    /\ lastOp' = [op |-> "fetchPreviewResolve", request |-> previewRequests[i].request,
                  ok |-> ok]
    /\ UNCHANGED <<texContent, lastPreviewContent, previewsSent>>

otherThanEdit == <<statusVars, dataVars, loaderVars, drawVars, pageVars, saveVars,
                   enhanceVars, preloadVars, inputKinds, jobStatus, abandoned, pollVars>>

EditNext ==
    \/ \E data \in {"", "v0"} :
           /\ openEditor(data)
           /\ UNCHANGED otherThanEdit
    \/ \E value \in EditContents :
           /\ lastOp.op # "init"
           /\ onEditorChange(value)
           /\ UNCHANGED otherThanEdit
    \/ /\ previewsSent < MaxPreviews
       /\ debounceFires
       /\ UNCHANGED otherThanEdit
    \/ \E i \in 1..MaxPreviews, ok \in BOOLEAN :
           /\ fetchPreviewResolve(i, ok)
           /\ UNCHANGED otherThanEdit

SpecEdit == DataSpecInit /\ [][EditNext]_vars

-----------------------------------------------------------------------------
(* useVisibilityPolling as the jobs page uses it: fetchJobs every 10 s while
   the document is visible *)

\* The hook's refs and the timers of the window: [ref, timers]
PollState == [ref |-> intervalRef, timers |-> timers]

\* setInterval returns an id no active timer has
NewTimer(active) == CHOOSE id \in 1..(Cardinality(active) + 1) : id \notin active

startPolling(s) ==
    IF s.ref # 0 THEN s
    ELSE [ref |-> NewTimer(s.timers), timers |-> s.timers \cup {NewTimer(s.timers)}]

\* A stopPolling that forgets the timer without clearing it
stopPollingKeepsTimer(s) ==
    IF s.ref # 0 THEN [ref |-> 0, timers |-> s.timers] ELSE s

stopPolling(s) ==
    IF s.ref # 0 THEN [ref |-> 0, timers |-> s.timers \ {s.ref}] ELSE s

\* The body of the effect on [enabled, startPolling, stopPolling]
pollEffect(s, isEnabled) ==
    IF ~isEnabled THEN stopPolling(s)
    ELSE IF ~hidden THEN startPolling(s)
    ELSE s

\* The cleanup the effect returned, if it returned one
pollCleanup(s) == IF listening THEN stopPolling(s) ELSE s

\* The component that calls the hook mounts
mountPolling(isEnabled) ==
    /\ ~pollMounted
    /\ pollMounted' = TRUE
    /\ enabled' = isEnabled
    /\ intervalRef' = pollEffect([ref |-> 0, timers |-> timers], isEnabled).ref
    /\ timers' = pollEffect([ref |-> 0, timers |-> timers], isEnabled).timers
    /\ listening' = isEnabled
    /\ hidden' = hidden
    /\ lastOp' = [op |-> "mountPolling", enabled |-> isEnabled]

\* The component renders with another value of enabled
setEnabled(isEnabled) ==
    /\ pollMounted
    /\ isEnabled # enabled
    /\ enabled' = isEnabled
    /\ intervalRef' = pollEffect(pollCleanup(PollState), isEnabled).ref
    /\ timers' = pollEffect(pollCleanup(PollState), isEnabled).timers
    /\ listening' = isEnabled
    /\ UNCHANGED <<hidden, pollMounted>>
    /\ lastOp' = [op |-> "setEnabled", enabled |-> isEnabled]

\* The document becomes hidden or visible; handleVisibilityChange runs when
\* it is registered, and calls savedCallback (fetchJobs) when the document
\* has become visible
visibilityChange ==
    /\ hidden' = ~hidden
    /\ job' = IF listening /\ ~hidden' THEN [job EXCEPT !.status = jobStatus] ELSE job
    /\ buttons' = getButtonVisibility(job')
    /\ intervalRef' = IF ~listening THEN intervalRef
                      ELSE IF hidden' THEN stopPolling(PollState).ref
                      ELSE startPolling(PollState).ref
    /\ timers' = IF ~listening THEN timers
                 ELSE IF hidden' THEN stopPolling(PollState).timers
                 ELSE startPolling(PollState).timers
    /\ UNCHANGED <<enabled, listening, pollMounted>>
    /\ lastOp' = [op |-> "visibilityChange", hidden |-> hidden']

unmountPolling ==
    /\ pollMounted
    /\ pollMounted' = FALSE
    /\ intervalRef' = pollCleanup(PollState).ref
    /\ timers' = pollCleanup(PollState).timers
    /\ listening' = FALSE
    /\ UNCHANGED <<hidden, enabled>>
    /\ lastOp' = [op |-> "unmountPolling"]

\* A timer fires: savedCallback.current(), the fetchJobs of the jobs page,
\* which renders the row from the status it was sent
pollTick(id) ==
    /\ id \in timers
    /\ job' = [job EXCEPT !.status = jobStatus]
    /\ buttons' = getButtonVisibility(job')
    /\ lastOp' = [op |-> "pollTick", timer |-> id]

otherThanPoll == <<dataVars, loaderVars, drawVars, pageVars, saveVars, enhanceVars,
                   preloadVars, inputKinds, abandoned, editVars>>

PollNext ==
    \/ \E isEnabled \in BOOLEAN :
           /\ mountPolling(isEnabled)
           /\ UNCHANGED <<otherThanPoll, statusVars, jobStatus>>
    \/ \E isEnabled \in BOOLEAN :
           /\ setEnabled(isEnabled)
           /\ UNCHANGED <<otherThanPoll, statusVars, jobStatus>>
    \/ /\ visibilityChange
       /\ UNCHANGED <<otherThanPoll, jobStatus>>
    \/ /\ unmountPolling
       /\ UNCHANGED <<otherThanPoll, statusVars, jobStatus>>
    \/ \E id \in 1..2 :
           /\ pollTick(id)
           /\ UNCHANGED <<otherThanPoll, pollVars, jobStatus>>
    \/ \E status \in WorkspaceStatuses :
           /\ pipelineAdvances(status)
           /\ UNCHANGED <<otherThanPoll, statusVars, pollVars>>

SpecPoll == DataSpecInit /\ [][PollNext]_vars

-----------------------------------------------------------------------------
(* Properties of the capability table (SpecStatus) *)

\* C1: canSegment is true exactly for 'awaiting_segmentation' and canCompile exactly
\* for 'segmentation_complete'; awaiting_segmentation gives canCompile = false and
\* canDownloadPdf = false, segmentation_complete gives canSegment = false.
C1_SegmentAndCompileGates ==
    /\ buttons.canSegment <=> job.status = "awaiting_segmentation"
    /\ buttons.canCompile <=> job.status = "segmentation_complete"
    /\ job.status = "awaiting_segmentation"
           => ~buttons.canCompile /\ ~buttons.canDownloadPdf
    /\ job.status = "segmentation_complete" => ~buttons.canSegment

C1_Witness ==
    /\ lastOp.op = "RenderJobRow"
    /\ job.status = "awaiting_segmentation"
    /\ buttons.canSegment

C3_ViewTexGate ==
    job.status \in KnownStatuses =>
        /\ buttons.canViewTex <=>
               (/\ job.status \notin {"pending", "rendering", "processing_vlm", "failed"}
                /\ ~buttons.canDownloadPdf)
        /\ ~(buttons.canViewTex /\ buttons.canDownloadPdf)

C3_Witness ==
    /\ lastOp.op = "RenderJobRow"
    /\ job.status = "compilation_complete"
    /\ buttons.canDownloadPdf
    /\ ~buttons.canViewTex

\* C4: for a status string that is none of the thirteen known statuses, every
\* capability flag (canViewTex, canSegment, canCompile, canDownloadPdf,
\* canDownloadTex) is false.
C4_UnknownStatusAllFalse ==
    job.status \notin KnownStatuses =>
        /\ ~buttons.canViewTex
        /\ ~buttons.canSegment
        /\ ~buttons.canCompile
        /\ ~buttons.canDownloadPdf
        /\ ~buttons.canDownloadTex

-----------------------------------------------------------------------------
(* Properties of the annotation collection (SpecData) *)

\* C5: addBoundingBox(box) appends the box at the end of the collection, every
\* existing box and their order unchanged, and afterwards box.label is in the
\* completion set.
C5_AddAppends ==
    [][lastOp'.op = "addBoundingBox" =>
          /\ Len(boundingBoxes') = Len(boundingBoxes) + 1
          /\ boundingBoxes'[Len(boundingBoxes')] = lastOp'.box
          /\ \A k \in 1..Len(boundingBoxes) : boundingBoxes'[k] = boundingBoxes[k]
          /\ lastOp'.box.label \in completedTasks']_vars

C5_Witness ==
    /\ lastOp.op = "addBoundingBox"
    /\ Len(boundingBoxes) = 2
    /\ boundingBoxes[1] # boundingBoxes[2]
    /\ boundingBoxes[2] = lastOp.box

\* C6: removeBoundingBoxByIndex(i) with a valid index removes exactly the box at
\* index i and recomputes the completion set from the remaining boxes: the removed
\* box's label is out of the completion set if and only if no other box with that
\* label remains.
C6_RemoveAtIndex ==
    [][(/\ lastOp'.op = "removeBoundingBoxByIndex"
        /\ lastOp'.index >= 0
        /\ lastOp'.index < Len(boundingBoxes)) =>
          LET i == lastOp'.index
              removed == boundingBoxes[i + 1]
          IN  /\ Len(boundingBoxes') = Len(boundingBoxes) - 1
              /\ \A k \in 1..Len(boundingBoxes') :
                     boundingBoxes'[k] = IF k <= i THEN boundingBoxes[k]
                                         ELSE boundingBoxes[k + 1]
              /\ completedTasks' = {boundingBoxes'[k].label : k \in 1..Len(boundingBoxes')}
              /\ removed.label \notin completedTasks' <=>
                     ~\E k \in 1..Len(boundingBoxes') :
                          boundingBoxes'[k].label = removed.label]_vars

\* One of two boxes of the same label was removed (the second one): the label stays.
C6_Witness ==
    /\ lastOp.op = "removeBoundingBoxByIndex"
    /\ lastOp.found
    /\ lastOp.index = 1
    /\ Len(boundingBoxes) = 1
    /\ boundingBoxes[1].label = lastOp.label
    /\ lastOp.label \in completedTasks

\* C7: after overwriteBoundingBoxes(boxes), and after fetchData loaded the saved
\* segmentations, the collection equals the given boxes and the completion set is
\* exactly the set of their distinct labels, whatever the previous state was.
C7_OverwriteAndLoad ==
    [][/\ lastOp'.op = "overwriteBoundingBoxes" =>
              /\ boundingBoxes' = lastOp'.boxes
              /\ completedTasks' = {lastOp'.boxes[k].label : k \in 1..Len(lastOp'.boxes)}
       /\ (lastOp'.op = "fetchDataResolve" /\ lastOp'.loaded) =>
              LET segData == lastOp'.segData
              IN  /\ Len(boundingBoxes') = Len(segData)
                  /\ \A k \in 1..Len(segData) :
                         /\ boundingBoxes'[k].x = segData[k].x
                         /\ boundingBoxes'[k].y = segData[k].y
                         /\ boundingBoxes'[k].width = segData[k].width
                         /\ boundingBoxes'[k].height = segData[k].height
                         /\ boundingBoxes'[k].label = segData[k].label
                         /\ boundingBoxes'[k].pageNumber = segData[k].pageNumber
                         /\ boundingBoxes'[k].enhancedS3Path = segData[k].enhanced_s3_path
                         /\ boundingBoxes'[k].useEnhanced = segData[k].use_enhanced
                  /\ completedTasks' = {segData[k].label : k \in 1..Len(segData)}]_vars

\* A load of one saved box of DIAGRAM-2 left exactly that label complete.
C7_Witness ==
    /\ lastOp.op = "fetchDataResolve"
    /\ lastOp.loaded
    /\ Len(boundingBoxes) = 1
    /\ boundingBoxes[1].label = "DIAGRAM-2"
    /\ completedTasks = {"DIAGRAM-2"}

\* C8: updateBoundingBox(label, updates) applies the updates to every box whose
\* label equals the given label and leaves every box with another label, the number
\* of boxes and their order unchanged.
C8_UpdateByLabel ==
    [][lastOp'.op = "updateBoundingBox" =>
          /\ Len(boundingBoxes') = Len(boundingBoxes)
          /\ \A k \in 1..Len(boundingBoxes) :
                 IF boundingBoxes[k].label = lastOp'.label
                 THEN \A f \in DOMAIN boundingBoxes[k] :
                          boundingBoxes'[k][f] =
                              IF f \in DOMAIN lastOp'.updates THEN lastOp'.updates[f]
                              ELSE boundingBoxes[k][f]
                 ELSE boundingBoxes'[k] = boundingBoxes[k]]_vars

\* Two boxes of the updated label both carry the update.
C8_Witness ==
    /\ lastOp.op = "updateBoundingBox"
    /\ Len(boundingBoxes) = 2
    /\ boundingBoxes[1].pageNumber # boundingBoxes[2].pageNumber
    /\ \A k \in 1..2 :
           /\ boundingBoxes[k].label = lastOp.label
           /\ boundingBoxes[k].useEnhanced = lastOp.updates.useEnhanced
           /\ boundingBoxes[k].enhancedS3Path = lastOp.updates.enhancedS3Path

-----------------------------------------------------------------------------
(* Properties of the draw gesture (SpecGesture) *)

\* C9: a draw gesture whose raw pixel width or height is below 5 px, or whose
\* clamped normalized width or height is below 0.01, never calls
\* addBoundingBoxCallback: no step of the gesture (start, move, end) changes the
\* collection or the completion set.
C9_SmallGestureNeverAdds ==
    [][/\ lastOp'.op \in {"handleDrawStart", "handleDrawMove"} =>
              /\ boundingBoxes' = boundingBoxes
              /\ completedTasks' = completedTasks
       /\ (/\ lastOp'.op = "handleDrawEnd"
           /\ isDrawing
           /\ newBox # NoBox
           /\ \/ Abs(newBox.endX - newBox.startX) < 5
              \/ Abs(newBox.endY - newBox.startY) < 5
              \/ JsLt(DrawnBox(newBox).clampedWidth, Num(1, 100))
              \/ JsLt(DrawnBox(newBox).clampedHeight, Num(1, 100))) =>
              /\ boundingBoxes' = boundingBoxes
              /\ completedTasks' = completedTasks]_vars

\* A gesture larger than 5 px both ways was rejected for its normalized size, with
\* the image loaded, and the collection is still empty.
C9_Witness ==
    /\ lastOp.op = "handleDrawEnd"
    /\ lastOp.toast = "tooSmallAfterClamping"
    /\ imageObj # NoImage
    /\ ~isDrawing
    /\ boundingBoxes = <<>>

-----------------------------------------------------------------------------
(* Properties of the page geometry (SpecCorner) *)

\* The geometry of the 1200x1600 page in the 800x600 container.
Geometry800x600 ==
    containerSize = CornerContainer /\ imageObj = ImageOf("page-1.png") =>
        /\ renderedImageSize = [width |-> FromInt(450), height |-> FromInt(600)]
        /\ imageOffset = [x |-> FromInt(175), y |-> FromInt(0)]

\* C11: with a container of 800x600 and a natural image of 1200x1600 the rendered
\* size is 450x600 and the offset is (175, 0); a drag from pixel (175, 0) to pixel
\* (625, 600) commits a box with x = 0, y = 0, width = 1, height = 1.
C11_CornerDrag ==
    [][/\ Geometry800x600
       /\ (/\ lastOp'.op = "handleDrawEnd"
           /\ containerSize = CornerContainer
           /\ imageObj = ImageOf("page-1.png")
           /\ isDrawing
           /\ newBox # NoBox
           /\ <<newBox.startX, newBox.startY>> = <<175, 0>>
           /\ <<newBox.endX, newBox.endY>> = <<625, 600>>) =>
              /\ Len(boundingBoxes') = Len(boundingBoxes) + 1
              /\ LET box == boundingBoxes'[Len(boundingBoxes')]
                 IN  /\ box.x = FromInt(0)
                     /\ box.y = FromInt(0)
                     /\ box.width = FromInt(1)
                     /\ box.height = FromInt(1)]_vars

\* The full-image box has been committed in the 800x600 container.
C11_Witness ==
    /\ lastOp.op = "handleDrawEnd"
    /\ lastOp.toast = "added"
    /\ containerSize = CornerContainer
    /\ imageObj = ImageOf("page-1.png")
    /\ Len(boundingBoxes) = 1
    /\ boundingBoxes[1].x = FromInt(0)
    /\ boundingBoxes[1].y = FromInt(0)
    /\ boundingBoxes[1].width = FromInt(1)
    /\ boundingBoxes[1].height = FromInt(1)


-----------------------------------------------------------------------------
(* Properties of the coordinate conversions in binary64 *)

\* |x| < 2^k for the unrounded value x = [s, m, e]
BelowPow2(x, k) == x.m = <<>> \/ BigBitLength(x.m) + x.e <= k

\* |a - b| < 2^k, the difference taken exactly
WithinPow2(a, b, k) == BelowPow2(F64ExactSum(a, F64Neg(b)), k)

\* C12 as stated: for every pixel point p inside the rendered image, converting
\* p to normalized coordinates as the draw commit does and back to pixels as
\* the canvas renderer does, under the same geometry, gives exactly p again.
C12_RoundTripExact ==
    lastOp.op = "RenderCommitted" =>
        /\ lastOp.pixel.x = F64FromInt(lastOp.pos.x)
        /\ lastOp.pixel.y = F64FromInt(lastOp.pos.y)

\* C12: for every pixel point p inside the rendered image, converting p to
\* normalized coordinates and back to pixels under the same geometry gives a
\* point within 2^-40 pixel of p in each coordinate.
C12_RoundTripWithinTolerance ==
    lastOp.op = "RenderCommitted" =>
        /\ WithinPow2(lastOp.pixel.x, F64FromInt(lastOp.pos.x), -40)
        /\ WithinPow2(lastOp.pixel.y, F64FromInt(lastOp.pos.y), -40)

\* A point inside an offset image went through both conversions, and rounding
\* moved one of its coordinates.
C12_Witness ==
    /\ lastOp.op = "RenderCommitted"
    /\ imageOffset64.x # F64Zero
    /\ lastOp.pixel.x = F64FromInt(lastOp.pos.x)
    /\ lastOp.pixel.y # F64FromInt(lastOp.pos.y)

BigAbsDiff(a, b) == IF BigCmp(a, b) >= 0 THEN BigSub(a, b) ELSE BigSub(b, a)

\* |v - n / d| < 2^(-k), for v >= 0 and n, d > 0
RatioWithinAt(v, n, d, k, sh) ==
    BigCmp(BigShl(BigAbsDiff(BigShl(BigMul(v.m, BigFromInt(d)), v.e + sh),
                             BigShl(BigFromInt(n), sh)), k),
           BigShl(BigFromInt(d), sh)) < 0

RatioWithinPow2(v, n, d, k) == RatioWithinAt(v, n, d, k, Max(0, -v.e))

\* W/H > Cw/Ch for the loaded image and the container, in exact arithmetic
WidthConstrained ==
    imageObj.naturalWidth * containerSize.height
        > containerSize.width * imageObj.naturalHeight

-----------------------------------------------------------------------------
(* Properties of submitting (SpecSubmit) and of enhancing (SpecEnhance) *)

\* C14: submitting when the collection holds zero boxes succeeds and still sends
\* the request that advances the job toward compilation, exactly as a submit
\* with boxes does: the POST goes out, with an empty list as its body.
C14_EmptySubmitSendsRequest ==
    [][(lastOp'.op = "saveSegmentations" /\ Len(boundingBoxes) = 0)
           => /\ lastOp'.toast # "Error saving segmentations"
              /\ Len(posts') = Len(posts) + 1
              /\ posts'[Len(posts')] = <<>>]_vars

\* The use_enhanced flag and the enhanced_s3_path of a payload entry are those
\* of the box (false and null when the box has none).
SameEnhancement(entry, box) ==
    /\ entry.use_enhanced = "true" <=> box.useEnhanced = "true"
    /\ entry.use_enhanced \in {"true", "false"}
    /\ IF box.enhancedS3Path \in {Undefined, Null}
       THEN entry.enhanced_s3_path = Null
       ELSE entry.enhanced_s3_path = box.enhancedS3Path

\* C15: once the user has selected "use original" for a label (the boxes of
\* that label hold useEnhanced = false), an enhancement response for that same
\* label that resolves later, from a superseded request, never changes
\* useEnhanced of any box.
C15_StaleResponseKeepsChoice ==
    [][(/\ lastOp'.op = "handleEnhanceResolve"
        /\ lastOp'.superseded
        /\ \E k \in 1..Len(boundingBoxes) :
               /\ boundingBoxes[k].label = lastOp'.label
               /\ boundingBoxes[k].useEnhanced = "false")
           => /\ Len(boundingBoxes') = Len(boundingBoxes)
              /\ \A k \in 1..Len(boundingBoxes) :
                     boundingBoxes'[k].useEnhanced = boundingBoxes[k].useEnhanced]_vars

\* A superseded request for a label answered successfully after "use original"
\* was chosen for that label.
C15_Witness ==
    /\ lastOp.op = "handleEnhanceResolve"
    /\ lastOp.superseded
    /\ lastOp.ok
    /\ \E k \in 1..Len(boundingBoxes) :
           /\ boundingBoxes[k].label = lastOp.label
           /\ boundingBoxes[k].useEnhanced = "false"

\* C18: the payload of a submit contains one entry for every box of the
\* collection as it is at the moment of the submit, in order; it is never built
\* from an earlier snapshot.
C18_PayloadIsCurrentCollection ==
    [][(lastOp'.op = "saveSegmentations" /\ Len(boundingBoxes) > 0)
           => /\ Len(posts') = Len(posts) + 1
              /\ Len(posts'[Len(posts')]) = Len(boundingBoxes)
              /\ \A k \in 1..Len(boundingBoxes) :
                     /\ posts'[Len(posts')][k].label = boundingBoxes[k].label
                     /\ posts'[Len(posts')][k].pageNumber = boundingBoxes[k].pageNumber
                     /\ posts'[Len(posts')][k].x = boundingBoxes[k].x
                     /\ posts'[Len(posts')][k].y = boundingBoxes[k].y
                     /\ posts'[Len(posts')][k].width = boundingBoxes[k].width
                     /\ posts'[Len(posts')][k].height = boundingBoxes[k].height
                     /\ SameEnhancement(posts'[Len(posts')][k], boundingBoxes[k])]_vars

\* A collection of two boxes of different pages, one with its enhancement
\* chosen, has been submitted.
C18_Witness ==
    /\ lastOp.op = "saveSegmentations"
    /\ Len(posts) = 1
    /\ Len(boundingBoxes) = 2
    /\ Len(posts[1]) = 2
    /\ boundingBoxes[1].pageNumber # boundingBoxes[2].pageNumber
    /\ posts[1][1].use_enhanced = "true"
    /\ posts[1][2].use_enhanced = "false"

-----------------------------------------------------------------------------
(* Properties of loading the page images (SpecLoader) *)

\* C16: over any interleaving of page navigations, prefetches and job preloads,
\* a network load is started at most once per page image url: a request for a
\* url that is already cached or already loading never starts a second load.
C16_OneLoadPerUrl ==
    /\ \A url \in DOMAIN loadsStarted : loadsStarted[url] <= 1
    /\ lastOp.op \in {"setCurrentPageIndex", "preloadJobImagesResolve"}
           => lastOp.started \cap lastOp.busy = {}

\* C17: when the load of the current page image fails, the loader exposes a
\* null image and a zero rendered size, no error is thrown to the caller, and
\* the box collection is unchanged.
C17_FailedLoadGivesNullImage ==
    [][(lastOp'.op = "imageOnerror" /\ lastOp'.url = UrlOf(currentPageIndex))
           => /\ imageObj' = NoImage
              /\ renderedImageSize' = ZeroSize
              /\ ~lastOp'.thrown
              /\ boundingBoxes' = boundingBoxes]_vars

\* The load of the current page image has failed while boxes were drawn.
C17_Witness ==
    /\ lastOp.op = "imageOnerror"
    /\ lastOp.url = UrlOf(currentPageIndex)
    /\ imageObj = NoImage
    /\ renderedImageSize = ZeroSize
    /\ Len(boundingBoxes) > 0

-----------------------------------------------------------------------------
(* Properties of the container's events (SpecPointer) *)

\* C20: the mouse events and the touch events drive the same transitions: from
\* every state and for every position, touchStart, touchMove and touchEnd lead
\* to exactly the drawing state, collection, task and outcome (started,
\* ignored, moved, added or rejected) that mouseDown, mouseMove and mouseUp
\* lead to.
C20_MouseAndTouchAgree ==
    [][\A pos \in EventPositions :
           /\ onTouchStart(TouchAt(pos)) <=> onMouseDown(MouseAt(pos))
           /\ onTouchMove(TouchAt(pos)) <=> onMouseMove(MouseAt(pos))
           /\ onTouchEnd(TouchLifted) <=> onMouseUp(MouseAt(pos))]_vars

\* a gesture of touch events alone has committed a box
C20_Witness ==
    /\ inputKinds = {"touch"}
    /\ lastOp.op = "handleDrawEnd"
    /\ lastOp.toast = "added"
    /\ Len(boundingBoxes) = 1

-----------------------------------------------------------------------------
(* Properties of entering and leaving the workspace (SpecWorkspace) *)

\* C21: a box is added or removed, or the collection is submitted, only while
\* the job's status is 'awaiting_segmentation'.
C21_ActiveOnlyWhileAwaiting ==
    [][lastOp'.op \in {"addBoundingBox", "removeBoundingBoxByIndex", "saveSegmentations"}
           => jobStatus = "awaiting_segmentation"]_vars

-----------------------------------------------------------------------------
(* Properties of the start of a gesture (SpecStart) *)

\* pos lies within the rendered image, its border included
WithinImage(pos) ==
    /\ JsLe(imageOffset.x, FromInt(pos.x))
    /\ JsLe(FromInt(pos.x), JsAdd(imageOffset.x, renderedImageSize.width))
    /\ JsLe(imageOffset.y, FromInt(pos.y))
    /\ JsLe(FromInt(pos.y), JsAdd(imageOffset.y, renderedImageSize.height))

\* C22: a pointerDown at pos while Idle leads to Drawing with pos as the start
\* point exactly when a task is selected, a page is loaded and pos lies within
\* the rendered image; otherwise the session stays Idle with no pending box.
C22_StartsIffTaskPageInside ==
    [][\A pos \in CornerPositions :
           (~isDrawing /\ handleDrawStart(pos)) =>
               IF HasCurrentTask /\ HasCurrentPage /\ WithinImage(pos)
               THEN isDrawing' /\ newBox'.startX = pos.x /\ newBox'.startY = pos.y
               ELSE ~isDrawing' /\ newBox' = NoBox]_vars

\* a gesture has started on the bottom right corner of the rendered image
C22_Witness ==
    /\ isDrawing
    /\ lastOp.op = "handleDrawStart"
    /\ lastOp.result = "started"
    /\ imageObj # NoImage
    /\ FromInt(newBox.startX) = JsAdd(imageOffset.x, renderedImageSize.width)
    /\ FromInt(newBox.startY) = JsAdd(imageOffset.y, renderedImageSize.height)

-----------------------------------------------------------------------------
(* Properties of the moves and the end of a gesture (SpecGesture) *)

\* C23: a pointerUp or pointerLeave while Drawing ends in Idle with no pending
\* box, committed or not; a pointerMove while Drawing changes the end point
\* and nothing else; a pointerMove, pointerUp or pointerLeave while Idle
\* changes nothing.
C23_MoveAndEndTransitions ==
    [][/\ (isDrawing /\ lastOp'.op = "handleDrawEnd")
              => ~isDrawing' /\ newBox' = NoBox
       /\ (isDrawing /\ lastOp'.op = "handleDrawMove")
              => /\ isDrawing'
                 /\ \E pos \in PointerPositions :
                        newBox' = [newBox EXCEPT !.endX = pos.x, !.endY = pos.y]
                 /\ UNCHANGED <<dataVars, pageVars>>
       /\ (~isDrawing /\ lastOp'.op \in {"handleDrawMove", "handleDrawEnd"})
              => UNCHANGED <<drawVars, dataVars, pageVars>>]_vars

\* a gesture moved away from its start point has ended without a box
C23_Witness ==
    /\ lastOp.op = "handleDrawEnd"
    /\ lastOp.toast = "tooSmallAfterClamping"
    /\ ~isDrawing
    /\ newBox = NoBox
    /\ boundingBoxes = <<>>

\* C24: at pointerUp or pointerLeave while Drawing the gesture is rejected
\* exactly when its raw width or height is below 5 px or its clamped
\* normalized width or height is below 0.01, so that a gesture whose extents
\* equal the thresholds is committed (read on a page whose image is rendered).
C24_RejectedIffBelowThresholds ==
    [][(isDrawing /\ imageObj # NoImage /\ lastOp'.op = "handleDrawEnd") =>
           ((lastOp'.toast # "added") <=>
                \/ DrawnBox(newBox).width < MinPixelSize
                \/ DrawnBox(newBox).height < MinPixelSize
                \/ JsLt(DrawnBox(newBox).clampedWidth, MinRelativeSize)
                \/ JsLt(DrawnBox(newBox).clampedHeight, MinRelativeSize))]_vars

-----------------------------------------------------------------------------
(* Properties of gestures across a change of task or page (SpecRetarget) *)

\* C25: a committed box carries the placeholder of the task that is selected
\* and the page number of the page that is displayed when the gesture commits.
C25_CommittedBoxIsOfCurrentTaskAndPage ==
    [][(lastOp'.op = "handleDrawEnd" /\ lastOp'.toast = "added") =>
           /\ boundingBoxes'[Len(boundingBoxes')].label = currentTask.placeholder
           /\ boundingBoxes'[Len(boundingBoxes')].pageNumber = currentPage.page_number]_vars

\* the rendered size and the offset calculateSizes and the imageOffset memo
\* give for the container and the image as they are now
CurrentSize == calculateSizes(containerSize, imageObj).renderedImageSize

CurrentOffset ==
    [x |-> JsDiv(JsSub(FromInt(containerSize.width), CurrentSize.width), FromInt(2)),
     y |-> JsDiv(JsSub(FromInt(containerSize.height), CurrentSize.height), FromInt(2))]

\* C26: a committed box is the gesture normalized with the rendered size and
\* the offset that follow from the container size and the image current at
\* commit time, whatever resizes and changes of image came before.
C26_CommittedWithCurrentGeometry ==
    [][(lastOp'.op = "handleDrawEnd" /\ lastOp'.toast = "added") =>
           /\ boundingBoxes'[Len(boundingBoxes')].x =
                  ClampStart(JsDiv(JsSub(FromInt(Min(newBox.startX, newBox.endX)),
                                         CurrentOffset.x), CurrentSize.width))
           /\ boundingBoxes'[Len(boundingBoxes')].y =
                  ClampStart(JsDiv(JsSub(FromInt(Min(newBox.startY, newBox.endY)),
                                         CurrentOffset.y), CurrentSize.height))
           /\ boundingBoxes'[Len(boundingBoxes')].width =
                  ClampExtent(boundingBoxes'[Len(boundingBoxes')].x,
                              JsDiv(FromInt(Abs(newBox.endX - newBox.startX)),
                                    CurrentSize.width))
           /\ boundingBoxes'[Len(boundingBoxes')].height =
                  ClampExtent(boundingBoxes'[Len(boundingBoxes')].y,
                              JsDiv(FromInt(Abs(newBox.endY - newBox.startY)),
                                    CurrentSize.height))]_vars

\* a box committed on the second page, after a resize of the container
C26_Witness ==
    /\ lastOp.op = "handleDrawEnd"
    /\ lastOp.toast = "added"
    /\ currentPageIndex = 1
    /\ imageObj = ImageOf("page-2.png")
    /\ containerSize = [width |-> 1600, height |-> 1200]
    /\ boundingBoxes[1].pageNumber = 2

-----------------------------------------------------------------------------
(* Properties of the prefetch window (SpecPrefetch) *)

\* the page indices around index i that lie within the page list
Window(i) == {i - 1, i + 1, i + 2} \cap (0..(Len(pageImages) - 1))

\* C27: when the current page index becomes i, prefetch is requested for
\* indices of the window i-1, i+1, i+2 within the page list only, for none that
\* was prefetched before, and for every one of them that was not.
C27_PrefetchWindow ==
    [][lastOp'.op = "setCurrentPageIndex" =>
           /\ lastOp'.prefetch \subseteq Window(currentPageIndex')
           /\ lastOp'.prefetch \cap prefetched = {}
           /\ Window(currentPageIndex') \subseteq prefetched \cup lastOp'.prefetch
           /\ prefetched' = prefetched \cup lastOp'.prefetch]_vars

\* on the last of four pages, reached from the third: the window is page 2
\* alone, prefetched before, as every page has been by then
C27_Witness ==
    /\ lastOp.op = "setCurrentPageIndex"
    /\ currentPageIndex = 3
    /\ lastOp.prefetch = {}
    /\ prefetched = {0, 1, 2, 3}

-----------------------------------------------------------------------------
(* Properties of responses that arrive late (SpecLoader, SpecSwitch, SpecEnhance) *)

\* C28: the image the loader exposes is null or the image of the page that is
\* selected now: a load that completes after the user went to another page
\* never replaces it.
C28_ImageIsOfCurrentPage ==
    imageObj = NoImage \/ imageObj.url = UrlOf(currentPageIndex)

\* C29: a response to a fetch started for a job the workspace has left since
\* never changes the page list, the task list, the box collection or the
\* completion set.
C29_AbandonedFetchChangesNothing ==
    [][abandoned' < abandoned =>
           UNCHANGED <<pageImages, segmentationTasks, boundingBoxes, completedTasks>>]_vars

\* C30: the response of an enhancement request that was superseded by a newer
\* handleEnhance, arriving before or after the newer request's response, is
\* discarded: it never becomes the enhancement result shown in the modal.
C30_SupersededResponseDiscarded ==
    [][(lastOp'.op = "handleEnhanceResolve" /\ lastOp'.superseded)
           => enhanceResult' = enhanceResult]_vars

-----------------------------------------------------------------------------
(* Properties of failures (SpecEnhance, SpecSubmit, SpecData) *)

\* C31: when the response of the preference update (PATCH) sent by
\* handleSelectOriginal or handleSelectEnhanced arrives, failed or not, every
\* box of the label then holds the chosen useEnhanced value and the enhanced
\* path of the result; a failure is only reported by a toast.
C31_ChoiceAppliedAlsoOnFailure ==
    [][\A i \in 1..Len(patches) :
           patches' = RemoveAt(patches, i)
               => \A k \in 1..Len(boundingBoxes') :
                      boundingBoxes'[k].label = patches[i].label
                          => /\ boundingBoxes'[k].useEnhanced = patches[i].useEnhanced
                             /\ boundingBoxes'[k].enhancedS3Path
                                    = patches[i].enhancedS3Path]_vars

\* C32: when the POST of a submit fails, the box collection and the completion
\* set are what they were, the segmentation page stays the route and isSaving
\* is false again; when an enhancement request fails, the collection, the
\* completion set, the route and isSaving are what they were.
C32_FailedWriteKeepsWork ==
    [][/\ (lastOp'.op = "saveSegmentationsResolve"
              /\ lastOp'.toast = "Error saving segmentations")
           => /\ boundingBoxes' = boundingBoxes
              /\ completedTasks' = completedTasks
              /\ route = "segment" /\ route' = "segment"
              /\ isSaving' = FALSE
       /\ (lastOp'.op = "handleEnhanceResolve" /\ ~lastOp'.ok)
           => /\ boundingBoxes' = boundingBoxes
              /\ completedTasks' = completedTasks
              /\ route = "segment" /\ route' = "segment"
              /\ isSaving' = isSaving]_vars

\* A submit of drawn boxes has failed after an enhancement request had been sent.
C32_Witness ==
    /\ lastOp.op = "saveSegmentationsResolve"
    /\ lastOp.toast = "Error saving segmentations"
    /\ Len(lastOp.body) > 0
    /\ Len(boundingBoxes) = Len(lastOp.body)
    /\ route = "segment"
    /\ ~isSaving
    /\ Len(enhanceRequests) > 0

\* The Promise.all of fetchData rejected, or one of the three responses reports
\* a failure (a 404 of /segmentations means that nothing has been saved yet).
ReadFailed(o) ==
    \/ o[1]
    \/ ~o[2].ok
    \/ ~o[3].ok
    \/ ~o[4].ok /\ o[4].status # 404

\* C33: when fetchData ends after a failure of one of its three reads (pages,
\* segmentation tasks, existing segmentations), error is set and loading is
\* false; when all three succeed and the existing segmentations are the empty
\* list, no error is set and the collection holds zero boxes.
C33_ReadFailureBlocks ==
    [][\A o \in FetchOutcomes(SeqsUpTo(ApiSegmentations, MaxLoad)) :
           fetchDataResolve(o[1], o[2], o[3], o[4])
               => /\ ReadFailed(o) => (error' # Null /\ ~loading')
                  /\ (~ReadFailed(o) /\ o[4].ok /\ o[4].isArray /\ o[4].body = <<>>)
                         => /\ error' = Null
                            /\ ~loading'
                            /\ boundingBoxes' = <<>>]_vars

-----------------------------------------------------------------------------
(* Properties of the TeX editor's preview (SpecEdit) *)

\* C34: a preview request sent by the debounce timer carries the content of the
\* last edit, and the response of a preview request that is not the most recent
\* one sent never changes the preview shown.
C34_OnlyLatestPreviewApplied ==
    [][/\ (lastOp'.op = "debounceFires" /\ previewsSent' > previewsSent)
           => previewRequests'[Len(previewRequests')].content = texContent
       /\ \A i \in 1..Len(previewRequests) :
              (/\ lastOp'.op = "fetchPreviewResolve"
               /\ lastOp'.request = previewRequests[i].request
               /\ previewRequests[i].request < previewsSent)
                  => previewPdfUrl' = previewPdfUrl]_vars

-----------------------------------------------------------------------------
(* Properties of the collection under any calls of the hook (SpecHook) *)

\* C35: in every state reached by loads, addBoundingBox,
\* removeBoundingBoxByIndex with any index, overwriteBoundingBoxes and
\* updateBoundingBox with any partial update, the completion set is exactly the
\* set of the labels of the boxes in the collection.
C35_CompletionIsLabelsOfBoxes == completedTasks = LabelSet(boundingBoxes)

-----------------------------------------------------------------------------
(* Properties of the removal by a click (SpecRemove) *)

\* How many boxes of the sequence equal the box in every field
Copies(boxes, box) == Cardinality({k \in 1..Len(boxes) : boxes[k] = box})

\* C36: a click on the i-th box rendered on the current page removes from the
\* collection that box, the i-th of the boxes of the current page, and no
\* other: the collection loses one box equal to the clicked one in every
\* field, enhancement fields included, and keeps every other box.
C36_RemovesTheClickedBox ==
    [][\A i \in 0..MaxBoxes :
           (i < Len(currentBoxesToRender) /\ handleRemoveBoxOnPage(i))
               => /\ Len(boundingBoxes') = Len(boundingBoxes) - 1
                  /\ \A k \in 1..Len(boundingBoxes) :
                         Copies(boundingBoxes', boundingBoxes[k]) =
                             IF boundingBoxes[k] = currentBoxesToRender[i + 1]
                             THEN Copies(boundingBoxes, boundingBoxes[k]) - 1
                             ELSE Copies(boundingBoxes, boundingBoxes[k])]_vars

-----------------------------------------------------------------------------
(* Properties of the clipping of a drawn rectangle (SpecGesture) *)

\* v limited to [0, 1]
Within01(v) == MathMax(FromInt(0), MathMin(FromInt(1), v))

\* C37: the box committed by a gesture that ended outside the rendered image is
\* the intersection of the drawn rectangle with the image, in normalized
\* coordinates: its left, right, top and bottom edges are those of the drawn
\* rectangle, each limited to [0, 1].
C37_CommittedBoxIsIntersection ==
    [][(/\ lastOp'.op = "handleDrawEnd"
        /\ lastOp'.toast = "added"
        /\ imageObj # NoImage
        /\ OutsideImage([x |-> newBox.endX, y |-> newBox.endY]))
           => LET box == boundingBoxes'[Len(boundingBoxes')]
                  left == JsDiv(JsSub(FromInt(Min(newBox.startX, newBox.endX)),
                                      imageOffset.x), renderedImageSize.width)
                  right == JsDiv(JsSub(FromInt(Max(newBox.startX, newBox.endX)),
                                       imageOffset.x), renderedImageSize.width)
                  top == JsDiv(JsSub(FromInt(Min(newBox.startY, newBox.endY)),
                                     imageOffset.y), renderedImageSize.height)
                  bottom == JsDiv(JsSub(FromInt(Max(newBox.startY, newBox.endY)),
                                        imageOffset.y), renderedImageSize.height)
              IN  /\ box.x = Within01(left)
                  /\ JsAdd(box.x, box.width) = Within01(right)
                  /\ box.y = Within01(top)
                  /\ JsAdd(box.y, box.height) = Within01(bottom)]_vars

-----------------------------------------------------------------------------
(* Properties of the page buttons (SpecPaging) *)

-----------------------------------------------------------------------------
(* Properties of useVisibilityPolling (SpecPoll) *)

\* C39: under any visibility changes, changes of enabled and unmounts, at most
\* one polling timer is active, and none is active while the document is
\* hidden, while enabled is false, or while the component is not mounted.
C39_AtMostOneTimerWhileVisible ==
    /\ Cardinality(timers) <= 1
    /\ (hidden \/ ~enabled \/ ~pollMounted) => timers = {}

\* The document of the mounted, enabled hook has just become hidden.
C39_Witness ==
    /\ lastOp.op = "visibilityChange"
    /\ hidden
    /\ pollMounted
    /\ enabled
    /\ listening
    /\ timers = {}

-----------------------------------------------------------------------------
(* Properties of the task selection after a commit (SpecAdvance) *)

\* C40: when a box is committed, the selected task index grows by one if no
\* box of the collection had the current task's label before the commit and
\* the current task is not the last task; otherwise it stays as it was; it
\* never passes the last task.
C40_AdvancesOncePerFreshTask ==
    [][(lastOp'.op = "handleDrawEnd" /\ lastOp'.toast = "added")
           => /\ currentTaskIndex' =
                     IF /\ \A k \in 1..Len(boundingBoxes) :
                               boundingBoxes[k].label # currentTask.placeholder
                        /\ currentTaskIndex < Len(segmentationTasks) - 1
                     THEN currentTaskIndex + 1
                     ELSE currentTaskIndex
              /\ currentTaskIndex' <= Len(segmentationTasks) - 1]_vars

\* A second box was committed for the first task, selected again after its
\* first box had advanced the selection: the selection stayed on it.
C40_Witness ==
    /\ lastOp.op = "handleDrawEnd"
    /\ lastOp.toast = "added"
    /\ Len(boundingBoxes) = 2
    /\ boundingBoxes[1].label = "DIAGRAM-1"
    /\ boundingBoxes[2].label = "DIAGRAM-1"
    /\ currentTaskIndex = 0

=========================================================================
